---- MODULE Spec2Model ----
(***************************************************************************)
(* FSLTL batch converter (scripts/convert_fsltl_batch.py) and the single   *)
(* file converter (scripts/convert_fsltl_glb.py).                          *)
(*                                                                         *)
(* Spec         : one process run: the startup imports, main() with its    *)
(*                worker pool and progress record, the process-level guard.*)
(* SpecObserved : the same run with an external reader of the progress     *)
(*                file running beside it.                                  *)
(* SpecTranscode: convert_single_gltf applied to bounded scene documents.  *)
(* SpecTexconv  : worker threads converting textures: convert_dds_to_png,  *)
(*                convert_dds_with_texconv and get_texconv_path.           *)
(* SpecResolver : one call of a resolver function (parse_model_name,       *)
(*                find_gltf_in_model_dir, find_texture_file,               *)
(*                parse_model_cfg, find_model_gltf) on bounded inputs.     *)
(*                                                                         *)
(* File-system calls on the progress file and on the model list may raise; *)
(* print is taken not to raise.  Lengths are in bytes.  Indices into       *)
(* accessors, bufferViews and images count from 1, 0 standing for "no such *)
(* attribute".                                                             *)
(***************************************************************************)
EXTENDS Integers, Sequences, FiniteSets, TLC

\* ------------------------------------------------------------------ bounds

\* Largest number of requested models in one batch.
MaxModels == 2

\* Largest number of file-system failures (OSError out of open()/json.dump)
\* the environment injects into one run.
MaxFaults == 2

\* Largest length of the external geometry buffer.
MaxBinLen == 12

\* Largest number of accessors, and of elements of one accessor.
MaxAccessors == 2
MaxCount == 2

\* Largest number of images, and the larger of the two PNG lengths tried.
MaxImages == 2
MaxPngLen == 4

\* Largest length of the serialized JSON text.
MaxJsonLen == 5

\* Worker threads converting textures, and conversions per thread.
MaxThreads == 2
MaxConversions == 2

\* Largest number of underscore-separated tokens of a model name.
MaxTokens == 3

\* Largest number of scene files in a model directory, and largest LOD
\* index in a file name.
MaxFiles == 2
MaxLod == 1

\* Largest number of texture directories searched after the model directory.
MaxTexDirs == 2

\* Largest number of lines of a configuration file.
MaxLines == 2

\* ------------------------------------------------------- program constants

\* PROGRESS_WRITE_INTERVAL = 0.5 s, in clock ticks of 250 ms.
PROGRESS_WRITE_INTERVAL == 2

\* min(os.cpu_count() or 4, 8): the default and the ceiling of the auto size.
DefaultCpuCount == 4
AutoWorkerCap == 8

\* Vertex ceiling of the LOD selection.
MAX_PREFERRED_VERTICES == 40000

\* The modules imported inside the startup try block, in source order.
StartupImports ==
    << "argparse", "re", "struct", "PIL", "numpy", "io", "traceback", "time",
       "os", "subprocess", "tempfile", "urllib.request", "zipfile",
       "concurrent.futures", "threading" >>

\* ------------------------------------------------------------------- state

VARIABLES
    pc,                  \* position of the main thread
    imp,                 \* number of startup imports that have succeeded
    argPF,               \* a --progress-file argument is on the command line
    argWorkers,          \* --workers
    cpuCount,            \* os.cpu_count(), 0 for None
    kind,                \* per requested model: what its conversion meets
    models_to_convert,   \* the finalized list of model names (1..N), or <<>>
    num_workers,         \* pool size
    fut,                 \* per model: state of its future
    result,              \* per model: what the future holds once done
    yielded,             \* futures as_completed has handed to the loop
    completed_count,     \* main's local counter
    model_name,          \* the loop variable of the as_completed loop
    progress,            \* the in-memory progress dict
    elapsed,             \* ticks since last_progress_write (saturating)
    sampled,             \* ticks since update_progress sampled `now`
    file,                \* the progress file on disk
    wpc,                 \* position inside one open()/json.dump()/close()
    faults,              \* file-system failures injected so far
    crash,               \* what the process-level handlers were entered with
    exitCode,            \* process exit status, -1 while running
    guardWrote,          \* how _write_startup_error's write ended
    lastRec,             \* history: the last record written completely
    statusLog,           \* history: statuses written completely, in order
    readerSaw,           \* what the external reader last found in the file
    flushLog,            \* history: when each completed write began
    tpc,                 \* convert_single_gltf: "off", "input" or "done"
    gltf,                \* the scene document convert_single_gltf is given
    tres,                \* what convert_single_gltf did and returned
    thr,                 \* per texture thread: position, last result, calls
    texconv_path,        \* the global _texconv_path
    texconv_lock,        \* holder of _texconv_lock, 0 for none
    resolutions,         \* times the candidate paths were probed
    texenv,              \* where texconv.exe is, and sys.frozen
    rpc,                 \* resolver call: "off", "call" or "returned"
    rfn,                 \* the resolver function called
    rarg,                \* its arguments and the file system it sees
    rret                 \* its return value

vars ==
    << pc, imp, argPF, argWorkers, cpuCount, kind, models_to_convert,
       num_workers, fut, result, yielded, completed_count, model_name,
       progress, elapsed, sampled, file, wpc, faults, crash, exitCode,
       guardWrote, lastRec, statusLog, readerSaw, flushLog, tpc, gltf, tres,
       thr,
       texconv_path, texconv_lock, resolutions, texenv, rpc, rfn, rarg,
       rret >>

\* ------------------------------------------------------------------ values

Kinds == {"ok", "notfound", "raise"}

NoRec == [status |-> "none", total |-> 0, completed |-> 0, current |-> 0,
          errors |-> <<>>, converted |-> <<>>, startup_error |-> "absent"]

NoResult == [raised |-> FALSE, success |-> FALSE, model_name |-> 0,
             error |-> "none"]

Terminal == {"complete", "error"}

Min(a, b) == IF a <= b THEN a ELSE b

\* The models of the command line: names 1..N.
ModelIds == DOMAIN kind

\* ------------------------------------------------------- pure operators

\* _get_progress_file_from_args(): the path pre-parsed from sys.argv, as
\* "is there one".
ProgressFileFromArgs == argPF

\* The dict of _write_startup_error with the status of a running batch.
StartupRecordStillConverting(error_msg) ==
    [status |-> "converting", total |-> 0, completed |-> 0, current |-> 0,
     errors |-> << [model |-> 0, msg |-> error_msg] >>, converted |-> <<>>,
     startup_error |-> error_msg]

\* The dict _write_startup_error dumps.
StartupRecord(error_msg) ==
    [status |-> "error", total |-> 0, completed |-> 0, current |-> 0,
     errors |-> << [model |-> 0, msg |-> error_msg] >>, converted |-> <<>>,
     startup_error |-> error_msg]

\* `traceback` is a bound name once its import statement has run.
TracebackBound(n) == \E j \in 1..n : StartupImports[j] = "traceback"

\* The except clauses around the startup imports: which handler body runs to
\* its end. "ImportError" uses only e.name; the generic handler evaluates
\* traceback.format_exc(), a NameError while `traceback` is unbound.
StartupHandler(exc, n) ==
    IF exc = "ImportError" THEN "import"
    ELSE IF TracebackBound(n) THEN "startup"
    ELSE "NameError"

\* num_workers: min(os.cpu_count() or 4, 8) for --workers <= 0, else the
\* argument itself.
WorkerCount(w, cpu) ==
    IF w <= 0
      THEN Min(IF cpu = 0 THEN DefaultCpuCount ELSE cpu, AutoWorkerCap)
      ELSE w

\* convert_model_task with the exception handler left out (used to show what
\* the handler is for).
ConvertModelTaskNoCatch(t, k) ==
    IF k = "ok"
      THEN [raised |-> FALSE, success |-> TRUE, model_name |-> t,
            error |-> "none"]
      ELSE [raised |-> TRUE, success |-> FALSE, model_name |-> t,
            error |-> IF k = "notfound" THEN "FileNotFoundError"
                      ELSE "Exception"]

\* convert_model_task: what the future of model t holds when its work meets
\* k. Every exception raised inside the try block becomes a failure dict.
convert_model_task(t, k) ==
    IF k = "ok"
      THEN [raised |-> FALSE, success |-> TRUE, model_name |-> t,
            error |-> "none"]
      ELSE [raised |-> FALSE, success |-> FALSE, model_name |-> t,
            error |-> IF k = "notfound" THEN "FileNotFoundError"
                      ELSE "Exception"]

\* The progress dict main creates.
InitialProgress(n) ==
    [status |-> "converting", total |-> n, completed |-> 0, current |-> 0,
     errors |-> <<>>, converted |-> <<>>, startup_error |-> "absent"]

\* The body of `with progress_lock:` in the try branch of the loop.
RecordResult(p, t, cc, r) ==
    IF r.success
      THEN [p EXCEPT !.completed = cc, !.current = t,
                     !.converted = Append(@, [modelName |-> r.model_name])]
      ELSE [p EXCEPT !.completed = cc, !.current = t,
                     !.errors = Append(@, [model |-> t, msg |-> r.error])]

\* The body of `with progress_lock:` in the except branch of the loop.
RecordException(p, t, cc, msg) ==
    [p EXCEPT !.completed = cc,
              !.errors = Append(@, [model |-> t, msg |-> msg])]

\* "Final status" that never looks at the error list.
FinalStatusAlwaysComplete(p) ==
    [p EXCEPT !.status = "complete", !.current = 0]

\* "Final status".
FinalStatus(p) ==
    [p EXCEPT !.status = IF p.errors = <<>> THEN "complete" ELSE "error",
              !.current = 0]

\* main's return value, the argument of sys.exit.
MainReturn(p) == IF Len(p.errors) = 0 THEN 0 ELSE 1

\* ----------------------------------------------------- writing the file

WriteSites == {"init_write", "upd_try", "upd_exc", "final_write", "guard"}

Debounced == {"upd_try", "upd_exc"}

\* update_progress without its interval test: every call writes.
ShouldWriteEveryCall == IF pc = "guard" THEN ProgressFileFromArgs ELSE argPF

\* Whether the code at the current site opens the progress file at all.
ShouldWrite ==
    /\ IF pc = "guard" THEN ProgressFileFromArgs ELSE argPF
    /\ pc \in Debounced => elapsed >= PROGRESS_WRITE_INTERVAL

\* The object handed to json.dump at the current site.
RecToWrite == IF pc = "guard" THEN StartupRecord(crash) ELSE progress

AfterWrite(site) ==
    CASE site = "init_write" -> "submit"
      [] site \in Debounced -> "loop"
      [] OTHER -> "exited"

ExitCodeAfter(site) ==
    CASE site = "final_write" -> MainReturn(progress)
      [] site = "guard" -> 1
      [] OTHER -> exitCode

LogStatus(log, s) ==
    IF log # <<>> /\ log[Len(log)] = s THEN log ELSE Append(log, s)

\* ---------------------------------------------------- convert_single_gltf

\* struct.calcsize of one field code of a little-endian format.
FieldSize(c) == CASE c = "4s" -> 4 [] c = "I" -> 4 [] c = "f" -> 4

RECURSIVE calcsize(_)
calcsize(fmt) ==
    IF fmt = <<>> THEN 0 ELSE FieldSize(Head(fmt)) + calcsize(Tail(fmt))

\* '<4sII', '<II' and '<ff'.
HeaderFormat == << "4s", "I", "I" >>
ChunkHeaderFormat == << "I", "I" >>
UvFormat == << "f", "f" >>

\* A padding rule that never pads.
PaddingNone(n) == 0

\* padding_needed / json_padding / bin_padding for a length n.
padding_needed(n) == (4 - (n % 4)) % 4

\* bv.get('byteStride', 4): a stride of 0 stands for a missing key.
StrideOf(bv) == IF bv.byteStride = 0 THEN 4 ELSE bv.byteStride

\* pos of element i of accessor acc.
ReadPos(doc, acc, i) ==
    LET bv == doc.bufferViews[acc.bufferView]
    IN  bv.byteOffset + acc.byteOffset + i * StrideOf(bv)

\* A bounds test that lets a read start anywhere inside the buffer.
PastEndByStart(pos, n) == pos >= n

\* `if pos + 4 > len(bin_data)`.
PastEnd(pos, n) == pos + 4 > n

\* A lookup miss that fails the asset instead of drawing a placeholder.
TextureBytesMissingFails(img) ==
    IF img.texture = "decoded"
      THEN [raised |-> "none", len |-> img.len, pixels |-> "texture"]
      ELSE [raised |-> "DecodeError", len |-> 0, pixels |-> "none"]

\* The body of the image loop for an image with a uri: the bytes appended
\* to image_buffers. A texture that is found goes through
\* convert_dds_to_png, which returns PNG bytes or raises; one that is not
\* found becomes Image.new('RGBA', (1, 1), ...) saved as PNG.
TextureBytes(img) ==
    CASE img.texture = "decoded" ->
           [raised |-> "none", len |-> img.len, pixels |-> "texture"]
      [] img.texture = "missing" ->
           [raised |-> "none", len |-> img.len, pixels |-> "1x1"]
      [] OTHER ->
           [raised |-> "DecodeError", len |-> 0, pixels |-> "none"]

\* An exception leaves the image loop.
ImagesRaise(images) ==
    \E i \in DOMAIN images :
      images[i].uri /\ TextureBytes(images[i]).raised # "none"

\* image_buffers: one PNG per image that has a uri, in image order.
RECURSIVE ImageBuffers(_, _)
ImageBuffers(images, i) ==
    IF i > Len(images) THEN <<>>
    ELSE IF images[i].uri
      THEN << [image |-> i, len |-> TextureBytes(images[i]).len,
               pixels |-> TextureBytes(images[i]).pixels] >>
           \o ImageBuffers(images, i + 1)
      ELSE ImageBuffers(images, i + 1)

\* uv_accessors: the accessors named by TEXCOORD_0, in order of first use.
RECURSIVE UvAccessors(_, _, _)
UvAccessors(prims, i, found) ==
    IF i > Len(prims) THEN found
    ELSE LET a == prims[i].TEXCOORD_0
         IN  UvAccessors(prims, i + 1,
                 IF a = 0 \/ (\E k \in 1..Len(found) : found[k] = a)
                   THEN found ELSE Append(found, a))

\* The attributes a primitive keeps.
RemoveAttrs(prim) == [prim EXCEPT !.TEXCOORD_1 = 0]

NoUv == [raised |-> "none", reads |-> {}, new_uv_len |-> 0, mapping |-> <<>>]

\* The loop over uv_accessors from its k-th entry on: the positions read,
\* the length of new_uv_data, uv_accessor_mapping, and the ValueError that
\* ends it.
RECURSIVE UvConvert(_, _, _, _)
UvConvert(doc, uv, k, st) ==
    IF k > Len(uv) THEN st
    ELSE
      LET acc == doc.accessors[uv[k]]
          count == acc.count
          bad == { i \in 0..(count - 1) :
                     PastEnd(ReadPos(doc, acc, i), doc.binLen) }
          stop == IF bad = {} THEN count
                  ELSE CHOOSE i \in bad : \A j \in bad : i <= j
          here == { ReadPos(doc, acc, i) : i \in 0..(stop - 1) }
      IN  IF acc.componentType # 5122 THEN UvConvert(doc, uv, k + 1, st)
          ELSE IF bad # {}
            THEN [st EXCEPT !.raised = "ValueError", !.reads = @ \cup here]
            ELSE UvConvert(doc, uv, k + 1,
                   [st EXCEPT
                      !.reads = @ \cup here,
                      !.new_uv_len = @ + count * calcsize(UvFormat),
                      !.mapping = Append(@, [acc |-> uv[k],
                                             offset |-> st.new_uv_len,
                                             count |-> count])])

\* The loop over image_buffers from its i-th entry on: the buffer views it
\* appends, the image entries it replaces and current_offset.
RECURSIVE AppendImages(_, _, _, _)
AppendImages(bufs, i, nViews, st) ==
    IF i > Len(bufs) THEN st
    ELSE
      LET bv_index == nViews + Len(st.added) + 1
          after == st.current_offset + bufs[i].len
      IN  AppendImages(bufs, i + 1, nViews,
            [current_offset |-> after + padding_needed(after),
             added |-> Append(st.added,
                          [byteOffset |-> st.current_offset,
                           byteLength |-> bufs[i].len,
                           image |-> bufs[i].image,
                           pixels |-> bufs[i].pixels]),
             images |-> [st.images EXCEPT
                           ![i] = [uri |-> FALSE, bufferView |-> bv_index,
                                   mimeType |-> "image/png"]]])

\* An accessor update that keeps the stale bounds.
UpdateAccessorKeepBounds(acc, uv_buffer_view_idx, m) ==
    [acc EXCEPT !.bufferView = uv_buffer_view_idx, !.byteOffset = m.offset,
                !.componentType = 5126, !.normalized = "false"]

\* The body of the loop over uv_accessor_mapping.
UpdateAccessor(acc, uv_buffer_view_idx, m) ==
    [acc EXCEPT !.bufferView = uv_buffer_view_idx, !.byteOffset = m.offset,
                !.componentType = 5126, !.normalized = "false",
                !.min = FALSE, !.max = FALSE]

UpdateAccessors(accessors, mapping, uv_buffer_view_idx) ==
    [a \in DOMAIN accessors |->
       IF \E k \in 1..Len(mapping) : mapping[k].acc = a
         THEN UpdateAccessor(accessors[a], uv_buffer_view_idx,
                  mapping[CHOOSE k \in 1..Len(mapping) : mapping[k].acc = a])
         ELSE accessors[a]]

\* extensions_to_remove.
extensions_to_remove ==
    { "MSFT_texture_dds", "ASOBO_normal_map_convention", "ASOBO_macro_light",
      "ASOBO_asset_optimized" }

\* A list of extension names, or a map from extension names, that the
\* document may lack.
AbsentList == [present |-> FALSE, items |-> <<>>]
AbsentMap == [present |-> FALSE, keys |-> {}]

\* extensionsUsed / extensionsRequired: filtered, deleted when empty.
StripList(l) ==
    IF ~l.present THEN l
    ELSE IF SelectSeq(l.items, LAMBDA x : x \notin extensions_to_remove) = <<>>
      THEN AbsentList
      ELSE [present |-> TRUE,
            items |-> SelectSeq(l.items,
                                LAMBDA x : x \notin extensions_to_remove)]

\* An extensions map: the four names popped, deleted when empty.
StripMap(m) ==
    IF ~m.present THEN m
    ELSE IF m.keys \ extensions_to_remove = {} THEN AbsentMap
    ELSE [present |-> TRUE, keys |-> m.keys \ extensions_to_remove]

\* The body of the loop over the materials.
CleanMaterial(mat) ==
    [extensions |-> StripMap(mat.extensions), alphaMode |-> "OPAQUE",
     doubleSided |-> TRUE, metallicRoughnessTexture |-> FALSE,
     metallicFactor |-> 0, roughnessFactor |-> 1]

\* A texture fix that takes the source of the payload whenever there is one.
FixTextureOverwrites(tex) ==
    [source |-> IF /\ tex.extensions.present
                   /\ "MSFT_texture_dds" \in tex.extensions.keys
                   /\ tex.dds_source # 0
                THEN tex.dds_source ELSE tex.source,
     extensions |-> StripMap(tex.extensions),
     dds_source |-> 0]

\* The body of the loop over the textures.  source and dds_source are image
\* indices, 0 for a missing key; dds_source is the source inside the
\* MSFT_texture_dds payload, which goes with the payload.
FixTexture(tex) ==
    [source |-> IF /\ tex.extensions.present
                   /\ "MSFT_texture_dds" \in tex.extensions.keys
                   /\ tex.dds_source # 0
                   /\ tex.source = 0
                THEN tex.dds_source ELSE tex.source,
     extensions |-> StripMap(tex.extensions),
     dds_source |-> IF /\ tex.extensions.present
                       /\ "MSFT_texture_dds" \in tex.extensions.keys
                    THEN 0 ELSE tex.dds_source]

\* The document's extension lists, materials and textures after the
\* clean-up.
StripExtensions(ext) ==
    [extensionsUsed |-> StripList(ext.extensionsUsed),
     extensionsRequired |-> StripList(ext.extensionsRequired),
     materials |-> [i \in DOMAIN ext.materials |->
                      CleanMaterial(ext.materials[i])],
     textures |-> [i \in DOMAIN ext.textures |->
                     FixTexture(ext.textures[i])]]

\* A document without extension lists, materials or textures.
NoExt ==
    [extensionsUsed |-> AbsentList, extensionsRequired |-> AbsentList,
     materials |-> <<>>, textures |-> <<>>]

\* The document before any transcode.  load tells how reading the scene
\* and its geometry buffer ends: "ok", "JSONDecodeError" for a scene that
\* does not parse, "FileNotFoundError" for a buffer file that is missing.
NoDoc == [load |-> "ok", binLen |-> 0, images |-> <<>>, accessors |-> <<>>,
          bufferViews |-> <<>>, prims |-> <<>>, jsonLen |-> 0,
          ext |-> NoExt]

\* An exception that leaves the function after it made the output
\* directory.
RaisesAfterMkdir(exception, reads) ==
    [raised |-> exception, success |-> FALSE, reads |-> reads,
     images |-> <<>>, added |-> <<>>, uv_buffer_view_idx |-> 0,
     accessors |-> <<>>, prims |-> <<>>, ext |-> NoExt,
     buffers_byteLength |-> 0, json_len |-> 0, bin_len |-> 0,
     total_length |-> 0, mkdir |-> TRUE, written |-> 0, output_size |-> 0]

\* An exception that leaves the function before the container is put
\* together: no directory made, nothing written, nothing returned.
Raises(exception, reads) ==
    [raised |-> exception, success |-> FALSE, reads |-> reads,
     images |-> <<>>, added |-> <<>>, uv_buffer_view_idx |-> 0,
     accessors |-> <<>>, prims |-> <<>>, ext |-> NoExt,
     buffers_byteLength |-> 0, json_len |-> 0, bin_len |-> 0,
     total_length |-> 0, mkdir |-> FALSE, written |-> 0, output_size |-> 0]

\* Nothing done and nothing returned.
NoTranscode ==
    [raised |-> "none", success |-> FALSE, reads |-> {}, images |-> <<>>,
     added |-> <<>>, uv_buffer_view_idx |-> 0, accessors |-> <<>>,
     prims |-> <<>>, ext |-> NoExt, buffers_byteLength |-> 0,
     json_len |-> 0, bin_len |-> 0, total_length |-> 0, mkdir |-> FALSE,
     written |-> 0, output_size |-> 0]

\* convert_single_gltf: what it reads, what it writes and what it returns
\* (success with output_size) or raises.
convert_single_gltf(doc) ==
    LET image_buffers == ImageBuffers(doc.images, 1)
        uv == UvConvert(doc, UvAccessors(doc.prims, 1, <<>>), 1, NoUv)
        start == doc.binLen + padding_needed(doc.binLen)
        img == AppendImages(image_buffers, 1, Len(doc.bufferViews),
                 [current_offset |-> start, added |-> <<>>,
                  images |-> [i \in DOMAIN doc.images |->
                                [uri |-> doc.images[i].uri, bufferView |-> 0,
                                 mimeType |-> "none"]]])
        uv_bv_start == img.current_offset
        uv_end == uv_bv_start + uv.new_uv_len
        bin_data_len == uv_end + padding_needed(uv_end)
        uv_buffer_view_idx ==
            Len(doc.bufferViews) + Len(img.added) + 1
        json_bytes == doc.jsonLen + padding_needed(doc.jsonLen)
        bin_bytes == bin_data_len + padding_needed(bin_data_len)
        total_length == 12 + 8 + json_bytes + 8 + bin_bytes
    IN  IF doc.load # "ok" THEN Raises(doc.load, {})
        ELSE IF ImagesRaise(doc.images) THEN Raises("DecodeError", {})
        ELSE IF uv.raised # "none" THEN Raises(uv.raised, uv.reads)
          ELSE [raised |-> "none",
                success |-> TRUE,
                reads |-> uv.reads,
                images |-> img.images,
                added |-> Append(img.added,
                             [byteOffset |-> uv_bv_start,
                              byteLength |-> uv.new_uv_len,
                              image |-> 0, pixels |-> "none"]),
                uv_buffer_view_idx |-> uv_buffer_view_idx,
                accessors |-> UpdateAccessors(doc.accessors, uv.mapping,
                                              uv_buffer_view_idx),
                prims |-> [p \in DOMAIN doc.prims |->
                             RemoveAttrs(doc.prims[p])],
                ext |-> StripExtensions(doc.ext),
                buffers_byteLength |-> bin_data_len,
                json_len |-> json_bytes,
                bin_len |-> bin_bytes,
                total_length |-> total_length,
                mkdir |-> TRUE,
                written |-> calcsize(HeaderFormat)
                            + calcsize(ChunkHeaderFormat) + json_bytes
                            + calcsize(ChunkHeaderFormat) + bin_bytes,
                output_size |-> total_length]

\* What the try block of convert_model_task meets when the transcode ends
\* as r.
TaskKind(r) == IF r.raised = "none" THEN "ok" ELSE "raise"

\* convert_fsltl_glb.py, one element read without a bounds test:
\* bin_data[pos:pos+4] is cut short at the end of the buffer, and
\* np.frombuffer(...)[0] raises on a slice of fewer than two bytes.
GlbRead(pos, n) ==
    LET got == IF pos >= n THEN 0 ELSE Min(4, n - pos)
        half(m) == CASE m >= 2 -> "ok" [] m = 1 -> "ValueError"
                     [] OTHER -> "IndexError"
        u == half(got)
        v == half(got - 2)
    IN  IF u # "ok" THEN u ELSE v

\* ------------------------------------------------------ transcode inputs

SeqsUpTo(S, n) == UNION { [1..k -> S] : k \in 0..n }

\* bufferViews of the input: a tightly packed one and an interleaved one.
BufferViews ==
    << [byteOffset |-> 0, byteStride |-> 0],
       [byteOffset |-> 1, byteStride |-> 6] >>

\* SHORT and UNSIGNED_SHORT.
ComponentTypes == {5122, 5123}

AccessorShapes ==
    { [bufferView |-> 1, byteOffset |-> 0, normalized |-> "absent",
       min |-> FALSE, max |-> FALSE],
      [bufferView |-> 2, byteOffset |-> 1, normalized |-> "true",
       min |-> TRUE, max |-> TRUE] }

AccessorInputs ==
    { [componentType |-> ct, count |-> c, bufferView |-> s.bufferView,
       byteOffset |-> s.byteOffset, normalized |-> s.normalized,
       min |-> s.min, max |-> s.max] :
      ct \in ComponentTypes, c \in 0..MaxCount, s \in AccessorShapes }

\* An image without a uri; images whose texture is found and decoded, or
\* not found, with the length of the PNG that results; an image whose
\* texture is found and makes convert_dds_to_png raise.
ImageInputs ==
    { [uri |-> FALSE, texture |-> "none", len |-> 0] }
    \cup { [uri |-> TRUE, texture |-> t, len |-> l] :
             t \in {"decoded", "missing"}, l \in {1, MaxPngLen} }
    \cup { [uri |-> TRUE, texture |-> "undecodable", len |-> 0] }

\* How the primitives name the n accessors: one primitive per accessor, in
\* order or reversed; every primitive taking accessor 1 as TEXCOORD_0 and the
\* last one as TEXCOORD_2; no TEXCOORD_0 at all.
PrimPatterns == {"each", "reversed", "shared", "none"}

Prims(p, n) ==
    CASE p = "each" ->
           [i \in 1..n |->
              [TEXCOORD_0 |-> i, TEXCOORD_1 |-> 0, TEXCOORD_2 |-> 0]]
      [] p = "reversed" ->
           [i \in 1..n |->
              [TEXCOORD_0 |-> n + 1 - i, TEXCOORD_1 |-> i, TEXCOORD_2 |-> 0]]
      [] p = "shared" ->
           [i \in 1..n |->
              [TEXCOORD_0 |-> 1, TEXCOORD_1 |-> i, TEXCOORD_2 |-> n]]
      [] p = "none" ->
           [i \in 1..n |->
              [TEXCOORD_0 |-> 0, TEXCOORD_1 |-> 0, TEXCOORD_2 |-> i]]

\* Documents without images: every accessor list, every primitive pattern.
UvDocs ==
    { [load |-> "ok", binLen |-> b, images |-> <<>>, accessors |-> as,
       bufferViews |-> BufferViews, prims |-> Prims(p, Len(as)),
       jsonLen |-> MaxJsonLen, ext |-> NoExt] :
      b \in 0..MaxBinLen, as \in SeqsUpTo(AccessorInputs, MaxAccessors),
      p \in PrimPatterns }

\* Documents with images, at most one packed float16 accessor and every
\* JSON length.
ImageDocs ==
    { [load |-> "ok", binLen |-> b, images |-> im, accessors |-> as,
       bufferViews |-> BufferViews, prims |-> Prims("each", Len(as)),
       jsonLen |-> j, ext |-> NoExt] :
      b \in 0..MaxBinLen, im \in SeqsUpTo(ImageInputs, MaxImages),
      as \in SeqsUpTo({ a \in AccessorInputs :
                          a.componentType = 5122 /\ a.bufferView = 1 }, 1),
      j \in 2..MaxJsonLen }

\* Extension lists, extension maps, materials and textures tried.
ExtLists ==
    { AbsentList }
    \cup [present : { TRUE },
          items : SeqsUpTo({ "MSFT_texture_dds", "ASOBO_asset_optimized",
                             "KHR_texture_transform" }, 2)]

RequiredLists ==
    { AbsentList,
      [present |-> TRUE, items |-> << "MSFT_texture_dds" >>],
      [present |-> TRUE, items |-> << "KHR_texture_transform" >>],
      [present |-> TRUE,
       items |-> << "KHR_texture_transform", "MSFT_texture_dds" >>] }

MaterialInputs ==
    [extensions :
        { AbsentMap }
        \cup [present : { TRUE },
              keys : SUBSET { "ASOBO_normal_map_convention",
                              "ASOBO_macro_light",
                              "KHR_materials_emissive_strength" }],
     alphaMode : { "BLEND" }, doubleSided : { FALSE },
     metallicRoughnessTexture : { TRUE }, metallicFactor : { 1 },
     roughnessFactor : { 0 }]

TextureInputs ==
    [source : { 0, 1 },
     extensions :
        { AbsentMap }
        \cup [present : { TRUE },
              keys : SUBSET { "MSFT_texture_dds", "KHR_texture_transform" }],
     dds_source : { 0, 2 }]

\* Documents with extension lists, at most one material and one texture,
\* and no geometry to repair.
ExtDocs ==
    { [load |-> "ok", binLen |-> 0, images |-> <<>>, accessors |-> <<>>,
       bufferViews |-> BufferViews, prims |-> <<>>, jsonLen |-> MaxJsonLen,
       ext |-> x] :
      x \in [extensionsUsed : ExtLists, extensionsRequired : RequiredLists,
             materials : SeqsUpTo(MaterialInputs, 1),
             textures : SeqsUpTo(TextureInputs, 1)] }

\* Documents that cannot be loaded.
LoadFailDocs ==
    { [NoDoc EXCEPT !.load = l, !.bufferViews = BufferViews,
                    !.jsonLen = MaxJsonLen] :
      l \in { "JSONDecodeError", "FileNotFoundError" } }

\* No texture thread and no resolver call.
TexconvOff ==
    /\ thr = <<>>
    /\ texconv_path = "None"
    /\ texconv_lock = 0
    /\ resolutions = 0
    /\ texenv = [toolAt |-> "nowhere", frozen |-> FALSE]

ResolverOff ==
    /\ rpc = "off"
    /\ rfn = "none"
    /\ rarg = <<>>
    /\ rret = <<>>

HelpersOff == TexconvOff /\ ResolverOff

\* ------------------------------------------------------------------- Init

\* (--workers, os.cpu_count()) pairs tried.
WorkerInputs == { <<0, 0>>, <<0, 16>>, <<1, 16>>, <<9, 16>> }

\* The flush history: ticks since the last completed write began (saturating
\* at FlushHorizon) and, per completed write, its site and the time from the
\* start of the write before it to its own start.  Kept only when `on`.
FlushHorizon == 2 * PROGRESS_WRITE_INTERVAL

FlushOff == [on |-> FALSE, since |-> FlushHorizon, gaps |-> <<>>]

FlushOn == [on |-> TRUE, since |-> FlushHorizon, gaps |-> <<>>]

InitRun ==
    /\ pc = "imports"
    /\ imp = 0
    /\ argPF \in BOOLEAN
    /\ \E wi \in WorkerInputs : argWorkers = wi[1] /\ cpuCount = wi[2]
    /\ kind \in UNION { [1..n -> Kinds] : n \in 0..MaxModels }
    /\ models_to_convert = <<>>
    /\ num_workers = 0
    /\ fut = [t \in DOMAIN kind |-> "unsubmitted"]
    /\ result = [t \in DOMAIN kind |-> NoResult]
    /\ yielded = {}
    /\ completed_count = 0
    /\ model_name = 0
    /\ progress = NoRec
    /\ elapsed = 0
    /\ sampled = 0
    /\ file = [st |-> "absent", rec |-> NoRec]
    /\ wpc = "idle"
    /\ faults = 0
    /\ crash = "none"
    /\ exitCode = -1
    /\ guardWrote = "no"
    /\ lastRec = NoRec
    /\ statusLog = <<>>
    /\ readerSaw = "none"
    /\ tpc = "off"
    /\ gltf = NoDoc
    /\ tres = NoTranscode
    /\ HelpersOff

Init == InitRun /\ flushLog = FlushOff

\* A run with a progress file and the automatic worker count, whose flushes
\* are timed.
InitTimed ==
    /\ InitRun
    /\ argPF
    /\ argWorkers = 0
    /\ cpuCount = 16
    /\ flushLog = FlushOn

transVars == << tpc, gltf, tres >>
texVars == << thr, texconv_path, texconv_lock, resolutions, texenv >>
resolverVars == << rpc, rfn, rarg, rret >>
helperVars == << texVars, resolverVars >>
inputVars == << argPF, argWorkers, cpuCount, kind >>
poolVars == << fut, result >>
loopVars == << yielded, completed_count, model_name >>
clockVars == << elapsed, sampled >>
fileVars == << file, wpc, guardWrote, lastRec, statusLog >>

\* ---------------------------------------------------------------- startup

\* One more import statement of the startup try block succeeds; after the
\* last one the module body runs on to the __main__ guard.
ImportNext ==
    /\ pc = "imports"
    /\ imp < Len(StartupImports)
    /\ imp' = imp + 1
    /\ pc' = IF imp + 1 = Len(StartupImports) THEN "main" ELSE "imports"
    /\ UNCHANGED << inputVars, transVars, helperVars, models_to_convert, num_workers, poolVars,
                    loopVars, progress, clockVars, fileVars, faults, crash,
                    exitCode, readerSaw, flushLog >>

\* The next import statement raises exc; the matching except clause runs.
ImportFails ==
    /\ pc = "imports"
    /\ imp < Len(StartupImports)
    /\ \E exc \in {"ImportError", "Exception"} :
         LET h == StartupHandler(exc, imp) IN
         /\ crash' = h
         /\ pc' = IF h = "NameError" THEN "exited" ELSE "guard"
         /\ exitCode' = IF h = "NameError" THEN 1 ELSE exitCode
    /\ UNCHANGED << imp, inputVars, transVars, helperVars, models_to_convert, num_workers, poolVars,
                    loopVars, progress, clockVars, fileVars, faults,
                    readerSaw, flushLog >>

\* ------------------------------------------------------------------- main

\* main() up to the creation of the progress dict.
MainStart ==
    /\ pc = "main"
    /\ models_to_convert' = [i \in DOMAIN kind |-> i]
    /\ num_workers' = WorkerCount(argWorkers, cpuCount)
    /\ progress' = InitialProgress(Cardinality(DOMAIN kind))
    /\ pc' = "init_write"
    /\ UNCHANGED << imp, inputVars, transVars, helperVars, poolVars, loopVars, clockVars, fileVars,
                    faults, crash, exitCode, readerSaw, flushLog >>

\* Reading the models file or listing the source tree raises: the exception
\* leaves main before any progress dict exists.
MainListFails ==
    /\ pc = "main"
    /\ crash' = "crash"
    /\ pc' = "guard"
    /\ UNCHANGED << imp, inputVars, transVars, helperVars, models_to_convert, num_workers, poolVars,
                    loopVars, progress, clockVars, fileVars, faults, exitCode,
                    readerSaw, flushLog >>

\* executor.submit for every task.
SubmitAll ==
    /\ pc = "submit"
    /\ fut' = [t \in DOMAIN kind |-> "pending"]
    /\ pc' = "loop"
    /\ UNCHANGED << imp, inputVars, transVars, helperVars, models_to_convert, num_workers, result,
                    loopVars, progress, clockVars, fileVars, faults, crash,
                    exitCode, readerSaw, flushLog >>

\* A free worker thread takes a queued task.
WorkerStart(t) ==
    /\ fut[t] = "pending"
    /\ Cardinality({u \in DOMAIN kind : fut[u] = "running"}) < num_workers
    /\ fut' = [fut EXCEPT ![t] = "running"]
    /\ UNCHANGED << pc, imp, inputVars, transVars, helperVars, models_to_convert, num_workers,
                    result, loopVars, progress, clockVars, fileVars, faults,
                    crash, exitCode, readerSaw, flushLog >>

\* convert_model_task returning only once every earlier task has returned.
WorkerFinishInOrder(t) ==
    /\ fut[t] = "running"
    /\ \A u \in DOMAIN kind : u < t => fut[u] = "done"
    /\ fut' = [fut EXCEPT ![t] = "done"]
    /\ result' = [result EXCEPT ![t] = convert_model_task(t, kind[t])]
    /\ UNCHANGED << pc, imp, inputVars, transVars, helperVars, models_to_convert, num_workers,
                    loopVars, progress, clockVars, fileVars, faults, crash,
                    exitCode, readerSaw, flushLog >>

\* convert_model_task returns in a worker thread.
WorkerFinish(t) ==
    /\ fut[t] = "running"
    /\ fut' = [fut EXCEPT ![t] = "done"]
    /\ result' = [result EXCEPT ![t] = convert_model_task(t, kind[t])]
    /\ UNCHANGED << pc, imp, inputVars, transVars, helperVars, models_to_convert, num_workers,
                    loopVars, progress, clockVars, fileVars, faults, crash,
                    exitCode, readerSaw, flushLog >>

\* One iteration of `for future in as_completed(...)` up to update_progress.
TakeResult(t) ==
    /\ pc = "loop"
    /\ t \notin yielded
    /\ fut[t] = "done"
    /\ yielded' = yielded \cup {t}
    /\ model_name' = t
    /\ completed_count' = completed_count + 1
    /\ IF result[t].raised
         THEN /\ progress' = RecordException(progress, t, completed_count + 1,
                                             result[t].error)
              /\ pc' = "upd_exc"
         ELSE /\ progress' = RecordResult(progress, t, completed_count + 1,
                                          result[t])
              /\ pc' = "upd_try"
    /\ UNCHANGED << imp, inputVars, transVars, helperVars, models_to_convert, num_workers, poolVars,
                    clockVars, fileVars, faults, crash, exitCode, readerSaw, flushLog >>

\* The loop is over and the pool has shut down: "Final status".
LoopEnd ==
    /\ pc = "loop"
    /\ yielded = DOMAIN kind
    /\ progress' = FinalStatus(progress)
    /\ pc' = "final_write"
    /\ UNCHANGED << imp, inputVars, transVars, helperVars, models_to_convert, num_workers, poolVars,
                    loopVars, clockVars, fileVars, faults, crash, exitCode,
                    readerSaw, flushLog >>

\* The exception goes on to the guard without the pool being waited for.
PoolExitNoWait ==
    /\ pc = "pool_exit"
    /\ pc' = "guard"
    /\ UNCHANGED << imp, inputVars, transVars, helperVars, models_to_convert, num_workers, poolVars,
                    loopVars, progress, clockVars, fileVars, faults, crash,
                    exitCode, readerSaw, flushLog >>

\* An exception is leaving the `with ThreadPoolExecutor` block: its __exit__
\* waits for every submitted task before the exception goes on to the guard.
PoolExit ==
    /\ pc = "pool_exit"
    /\ \A t \in DOMAIN kind : fut[t] = "done"
    /\ pc' = "guard"
    /\ UNCHANGED << imp, inputVars, transVars, helperVars, models_to_convert, num_workers, poolVars,
                    loopVars, progress, clockVars, fileVars, faults, crash,
                    exitCode, readerSaw, flushLog >>

\* ------------------------------------------------ write_progress and co.

\* No progress file, or the debounce interval has not passed.
WriteSkip ==
    /\ pc \in WriteSites
    /\ wpc = "idle"
    /\ ~ShouldWrite
    /\ pc' = AfterWrite(pc)
    /\ exitCode' = ExitCodeAfter(pc)
    /\ elapsed' = IF pc = "init_write" THEN 0 ELSE elapsed
    /\ UNCHANGED << imp, inputVars, transVars, helperVars, models_to_convert, num_workers, poolVars,
                    loopVars, progress, sampled, fileVars, faults, crash,
                    readerSaw, flushLog >>

\* open(progress_file, 'w'): the file is truncated.
WriteOpen ==
    /\ pc \in WriteSites
    /\ wpc = "idle"
    /\ ShouldWrite
    /\ file' = [st |-> "empty", rec |-> NoRec]
    /\ wpc' = "open"
    /\ sampled' = 0
    /\ UNCHANGED << pc, imp, inputVars, transVars, helperVars, models_to_convert, num_workers,
                    poolVars, loopVars, progress, elapsed, faults, crash,
                    exitCode, guardWrote, lastRec, statusLog, readerSaw, flushLog >>

\* json.dump has filled the file object's buffer once: a prefix of the text
\* is on disk.
WriteFlush ==
    /\ wpc = "open"
    /\ file' = [st |-> "partial", rec |-> NoRec]
    /\ wpc' = "partial"
    /\ UNCHANGED << pc, imp, inputVars, transVars, helperVars, models_to_convert, num_workers,
                    poolVars, loopVars, progress, clockVars, faults, crash,
                    exitCode, guardWrote, lastRec, statusLog, readerSaw, flushLog >>

\* History kept at a completed write that began `took` ticks ago.
FlushDone(log, site, took) ==
    IF log.on
    THEN [log EXCEPT !.since = took,
                     !.gaps = Append(@, [site |-> site,
                                         gap |-> log.since - took])]
    ELSE log

\* History kept when a quarter of a second passes.
FlushTick(log) ==
    IF log.on
    THEN [log EXCEPT !.since = Min(@ + 1, FlushHorizon)]
    ELSE log

\* The with block closes the file: the whole text is on disk.
WriteClose ==
    /\ wpc \in {"open", "partial"}
    /\ file' = [st |-> "full", rec |-> RecToWrite]
    /\ lastRec' = RecToWrite
    /\ statusLog' = LogStatus(statusLog, RecToWrite.status)
    /\ wpc' = "idle"
    /\ pc' = AfterWrite(pc)
    /\ exitCode' = ExitCodeAfter(pc)
    /\ elapsed' = IF pc \in Debounced THEN sampled
                  ELSE IF pc = "init_write" THEN 0 ELSE elapsed
    /\ sampled' = 0
    /\ guardWrote' = IF pc = "guard" THEN "ok" ELSE guardWrote
    /\ flushLog' = FlushDone(flushLog, pc, sampled)
    /\ UNCHANGED << imp, inputVars, transVars, helperVars, models_to_convert, num_workers, poolVars,
                    loopVars, progress, faults, crash, readerSaw >>

\* open() or json.dump raises OSError; what happens next depends on the site.
WriteRaises ==
    /\ pc \in WriteSites
    /\ ShouldWrite
    /\ faults < MaxFaults
    /\ faults' = faults + 1
    /\ wpc' = "idle"
    /\ sampled' = 0
    /\ pc' = CASE pc \in {"init_write", "final_write"} -> "guard"
               [] pc = "upd_try" -> "upd_exc"
               [] pc = "upd_exc" -> "pool_exit"
               [] OTHER -> "exited"
    /\ crash' = IF pc \in {"init_write", "final_write", "upd_exc"}
                THEN "crash" ELSE crash
    /\ progress' = IF pc = "upd_try"
                   THEN RecordException(progress, model_name, completed_count,
                                        "OSError")
                   ELSE progress
    /\ exitCode' = IF pc = "guard" THEN 1 ELSE exitCode
    /\ guardWrote' = IF pc = "guard" THEN "failed" ELSE guardWrote
    /\ UNCHANGED << imp, inputVars, transVars, helperVars, models_to_convert, num_workers, poolVars,
                    loopVars, elapsed, file, lastRec, statusLog, readerSaw, flushLog >>

\* A quarter of a second passes while progress is being tracked.
Tick ==
    /\ pc \in {"loop", "upd_try", "upd_exc"}
    /\ argPF
    /\ \/ elapsed < PROGRESS_WRITE_INTERVAL
       \/ wpc # "idle" /\ sampled < PROGRESS_WRITE_INTERVAL
    /\ elapsed' = Min(elapsed + 1, PROGRESS_WRITE_INTERVAL)
    /\ sampled' = IF wpc # "idle"
                  THEN Min(sampled + 1, PROGRESS_WRITE_INTERVAL) ELSE 0
    /\ flushLog' = FlushTick(flushLog)
    /\ UNCHANGED << pc, imp, inputVars, transVars, helperVars, models_to_convert, num_workers,
                    poolVars, loopVars, progress, fileVars, faults, crash,
                    exitCode, readerSaw >>

\* The host application polls the progress file.
ReaderRead ==
    /\ statusLog # <<>>
    /\ readerSaw # file.st
    /\ readerSaw' = file.st
    /\ UNCHANGED << pc, imp, inputVars, transVars, helperVars, models_to_convert, num_workers,
                    poolVars, loopVars, progress, clockVars, fileVars, faults,
                    crash, exitCode, flushLog >>

Next ==
    \/ ImportNext
    \/ ImportFails
    \/ MainStart
    \/ MainListFails
    \/ SubmitAll
    \/ \E t \in DOMAIN kind : WorkerStart(t)
    \/ \E t \in DOMAIN kind : WorkerFinish(t)
    \/ \E t \in DOMAIN kind : TakeResult(t)
    \/ LoopEnd
    \/ PoolExit
    \/ WriteSkip
    \/ WriteOpen
    \/ WriteFlush
    \/ WriteClose
    \/ WriteRaises
    \/ Tick

\* The run alone.
Spec == Init /\ [][Next]_vars

\* The same run with the flush history switched on.
SpecTimed == InitTimed /\ [][Next]_vars

\* What the main thread does when nothing fails and no time has to pass.
MainStep ==
    \/ ImportNext
    \/ MainStart
    \/ SubmitAll
    \/ \E t \in DOMAIN kind : TakeResult(t)
    \/ LoopEnd
    \/ PoolExit
    \/ WriteSkip
    \/ WriteOpen
    \/ WriteFlush
    \/ WriteClose

\* What the worker thread running task t does.
WorkerStep(t) ==
    /\ t \in DOMAIN kind
    /\ \/ WorkerStart(t)
       \/ WorkerFinish(t)

\* The main thread and every worker thread are scheduled again and again,
\* and a worker's call of convert_model_task returns.  Failures and the
\* passing of time are under no obligation to happen.
FairScheduling ==
    /\ WF_vars(MainStep)
    /\ \A t \in 1..MaxModels : WF_vars(WorkerStep(t))

\* Runs with a progress file and a pool of one worker, whose tasks convert
\* their model or raise.
InitFair ==
    /\ Init
    /\ argPF
    /\ argWorkers = 1
    /\ \A t \in DOMAIN kind : kind[t] \in {"ok", "raise"}

\* The run under fair scheduling of its threads.
SpecFair == InitFair /\ [][Next]_vars /\ FairScheduling

\* The run with the host application reading the progress file beside it.
NextObserved ==
    \/ Next
    \/ ReaderRead

SpecObserved == Init /\ [][NextObserved]_vars

\* ---------------------------------------------------- transcode alone

\* One call of convert_single_gltf on a bounded document; no batch runs.
BatchOff ==
    /\ pc = "off"
    /\ imp = 0
    /\ argPF = FALSE
    /\ argWorkers = 0
    /\ cpuCount = 0
    /\ kind = <<>>
    /\ models_to_convert = <<>>
    /\ num_workers = 0
    /\ fut = <<>>
    /\ result = <<>>
    /\ yielded = {}
    /\ completed_count = 0
    /\ model_name = 0
    /\ progress = NoRec
    /\ elapsed = 0
    /\ sampled = 0
    /\ file = [st |-> "absent", rec |-> NoRec]
    /\ wpc = "idle"
    /\ faults = 0
    /\ crash = "none"
    /\ exitCode = -1
    /\ guardWrote = "no"
    /\ lastRec = NoRec
    /\ statusLog = <<>>
    /\ readerSaw = "none"
    /\ flushLog = FlushOff

batchVars ==
    << pc, imp, inputVars, models_to_convert, num_workers, poolVars, loopVars,
       progress, clockVars, fileVars, faults, crash, exitCode, readerSaw, flushLog >>

InitTranscode ==
    /\ tpc = "input"
    /\ \/ gltf \in UvDocs
       \/ gltf \in ImageDocs
       \/ gltf \in ExtDocs
       \/ gltf \in LoadFailDocs
    /\ tres = NoTranscode
    /\ HelpersOff
    /\ BatchOff

Transcode ==
    /\ tpc = "input"
    /\ tres' = convert_single_gltf(gltf)
    /\ tpc' = "done"
    /\ UNCHANGED << gltf, helperVars, pc, imp, inputVars, models_to_convert,
                    num_workers,
                    poolVars, loopVars, progress, clockVars, fileVars, faults,
                    crash, exitCode, readerSaw, flushLog >>

NextTranscode == Transcode

SpecTranscode == InitTranscode /\ [][NextTranscode]_vars

\* ------------------------------------------------- texture conversion

Threads == 1..MaxThreads

\* check_paths of get_texconv_path.
CheckPaths(frozen) ==
    IF frozen THEN << "exe_dir" >> ELSE << "script_dir", "cwd" >>

\* The first candidate that exists, "None" when none does.
FirstExisting(paths, toolAt) ==
    IF \E i \in DOMAIN paths : paths[i] = toolAt THEN toolAt ELSE "None"

\* What subprocess.run and the reading of its output can come to.
RunOutcomes == {"ok", "nonzero", "timeout", "no_output", "unreadable"}

\* convert_dds_with_texconv after the tool was located: PNG bytes, or None.
TexconvResult(run) == IF run = "ok" THEN "png" ELSE "None"

\* convert_dds_to_png after the fallback returned r.
AfterFallback(r) == IF r = "png" THEN "png" ELSE "gray"

InitTexconv ==
    /\ thr = [t \in Threads |-> [pc |-> "idle", res |-> "none", calls |-> 0]]
    /\ texconv_path = "None"
    /\ texconv_lock = 0
    /\ resolutions = 0
    /\ texenv \in { [toolAt |-> a, frozen |-> f] :
                     a \in {"nowhere", "exe_dir", "script_dir", "cwd"},
                     f \in BOOLEAN }
    /\ ResolverOff
    /\ tpc = "off"
    /\ gltf = NoDoc
    /\ tres = NoTranscode
    /\ BatchOff

texFrame == << batchVars, transVars, resolverVars, texenv >>

\* A worker thread calls convert_dds_to_png for a texture it found.
ConvertStart(t) ==
    /\ thr[t].pc = "idle"
    /\ thr[t].calls < MaxConversions
    /\ thr' = [thr EXCEPT ![t] = [pc |-> "primary", res |-> "none",
                                  calls |-> @.calls + 1]]
    /\ UNCHANGED << texconv_path, texconv_lock, resolutions, texFrame >>

\* The image library decodes the file: PNG bytes are returned.
PrimaryDecodes(t) ==
    /\ thr[t].pc = "primary"
    /\ thr' = [thr EXCEPT ![t].pc = "idle", ![t].res = "png"]
    /\ UNCHANGED << texconv_path, texconv_lock, resolutions, texFrame >>

\* The image library raises NotImplementedError: the handler calls
\* convert_dds_with_texconv, which calls get_texconv_path.
PrimaryUnsupported(t) ==
    /\ thr[t].pc = "primary"
    /\ thr' = [thr EXCEPT ![t].pc = "acquire"]
    /\ UNCHANGED << texconv_path, texconv_lock, resolutions, texFrame >>

\* The image library raises anything else (an unidentifiable or truncated
\* file): no handler, the exception leaves convert_dds_to_png.
PrimaryRaises(t) ==
    /\ thr[t].pc = "primary"
    /\ thr' = [thr EXCEPT ![t].pc = "idle", ![t].res = "raised"]
    /\ UNCHANGED << texconv_path, texconv_lock, resolutions, texFrame >>

\* `with _texconv_lock:`.
LockAcquire(t) ==
    /\ thr[t].pc = "acquire"
    /\ texconv_lock = 0
    /\ texconv_lock' = t
    /\ thr' = [thr EXCEPT ![t].pc = "cached"]
    /\ UNCHANGED << texconv_path, resolutions, texFrame >>

\* `if _texconv_path and _texconv_path.exists(): return _texconv_path`.
CachedHit(t) ==
    /\ thr[t].pc = "cached"
    /\ texconv_path # "None"
    /\ texconv_path = texenv.toolAt
    /\ texconv_lock' = 0
    /\ thr' = [thr EXCEPT ![t].pc = "run"]
    /\ UNCHANGED << texconv_path, resolutions, texFrame >>

\* The cache holds nothing: go on to the candidate paths.
CachedMiss(t) ==
    /\ thr[t].pc = "cached"
    /\ ~(texconv_path # "None" /\ texconv_path = texenv.toolAt)
    /\ thr' = [thr EXCEPT ![t].pc = "resolve"]
    /\ UNCHANGED << texconv_path, texconv_lock, resolutions, texFrame >>

\* The loop over check_paths, still under the lock; the path is stored only
\* when a candidate exists.
Resolve(t) ==
    /\ thr[t].pc = "resolve"
    /\ resolutions' = resolutions + 1
    /\ LET found == FirstExisting(CheckPaths(texenv.frozen), texenv.toolAt)
       IN  /\ texconv_path' = IF found # "None" THEN found ELSE texconv_path
           /\ thr' = [thr EXCEPT ![t].pc = IF found # "None" THEN "run"
                                           ELSE "placeholder"]
    /\ texconv_lock' = 0
    /\ UNCHANGED texFrame

\* subprocess.run and the reading of the tool's output, any outcome.
RunTool(t) ==
    /\ thr[t].pc = "run"
    /\ \E run \in RunOutcomes :
         thr' = [thr EXCEPT ![t].pc = "idle",
                            ![t].res = AfterFallback(TexconvResult(run))]
    /\ UNCHANGED << texconv_path, texconv_lock, resolutions, texFrame >>

\* No tool: convert_dds_with_texconv returned None, the gray 64x64 image is
\* returned.
Placeholder(t) ==
    /\ thr[t].pc = "placeholder"
    /\ thr' = [thr EXCEPT ![t].pc = "idle", ![t].res = AfterFallback("None")]
    /\ UNCHANGED << texconv_path, texconv_lock, resolutions, texFrame >>

NextTexconv ==
    \E t \in Threads :
      \/ ConvertStart(t)
      \/ PrimaryDecodes(t)
      \/ PrimaryUnsupported(t)
      \/ PrimaryRaises(t)
      \/ LockAcquire(t)
      \/ CachedHit(t)
      \/ CachedMiss(t)
      \/ Resolve(t)
      \/ RunTool(t)
      \/ Placeholder(t)

SpecTexconv == InitTexconv /\ [][NextTexconv]_vars

\* ------------------------------------------------------- resolver: names

\* Strings are sequences of atoms: words that the code never looks inside,
\* and the characters "_", "-" and " " it searches for.
StartsWith(str, prefix) ==
    /\ Len(str) >= Len(prefix)
    /\ SubSeq(str, 1, Len(prefix)) = prefix

Drop(str, n) == SubSeq(str, n + 1, Len(str))

\* Positions of the atom c in str.
Positions(str, c) == { i \in DOMAIN str : str[i] = c }

\* str.split(c): the pieces between the occurrences of c, empty ones kept.
RECURSIVE Split(_, _)
Split(str, c) ==
    IF Positions(str, c) = {} THEN << str >>
    ELSE LET i == CHOOSE k \in Positions(str, c) :
                    \A j \in Positions(str, c) : k <= j
         IN  << SubSeq(str, 1, i - 1) >> \o Split(Drop(str, i), c)

\* str.strip(): blanks removed at both ends.
RECURSIVE Strip(_)
Strip(str) ==
    IF str = <<>> THEN str
    ELSE IF Head(str) = " " THEN Strip(Tail(str))
    ELSE IF str[Len(str)] = " " THEN Strip(SubSeq(str, 1, Len(str) - 1))
    ELSE str

\* None and a string, as the second component of the returned pair.
NoCode == [null |-> TRUE, text |-> <<>>]
Code(str) == [null |-> FALSE, text |-> str]

\* parse_model_name without the cut at the hyphen.
ParseModelNameKeepsHyphen(name) ==
    LET n1 == IF StartsWith(name, << "FSLTL", "_" >>)
              THEN Drop(name, 2) ELSE name
        n2 == IF StartsWith(n1, << "FAIB", "_" >>) THEN Drop(n1, 2) ELSE n1
        parts == Split(n2, "_")
        second == IF Len(parts) > 1 THEN Code(Strip(parts[2])) ELSE NoCode
    IN  << Strip(parts[1]),
           IF second.null \/ second.text \in { << "ZZZZ" >>, << "ZZZ" >>, <<>> }
             THEN NoCode ELSE second >>

\* parse_model_name: (aircraft_type, airline_code).
parse_model_name(name) ==
    LET n1 == IF StartsWith(name, << "FSLTL", "_" >>)
              THEN Drop(name, 2) ELSE name
        n2 == IF StartsWith(n1, << "FAIB", "_" >>) THEN Drop(n1, 2) ELSE n1
        parts == Split(n2, "_")
        second == IF Len(parts) > 1 THEN Code(Strip(parts[2])) ELSE NoCode
    IN  << Strip(parts[1]),
           IF second.null \/ second.text \in { << "ZZZZ" >>, << "ZZZ" >>, <<>> }
             THEN NoCode
           ELSE IF Positions(second.text, "-") # {}
             THEN Code(Strip(Split(second.text, "-")[1]))
           ELSE second >>

\* The tokens tried between underscores.
NameTokens ==
    { <<>>, << "B738" >>, << "AAL" >>, << "ZZZZ" >>, << "ZZZ" >>,
      << "AAL", "-", "Extra" >>, << "-", "AAL" >>, << " ", "ZZZ", " " >> }

RECURSIVE Join(_, _)
Join(tokens, c) ==
    IF Len(tokens) = 1 THEN tokens[1]
    ELSE tokens[1] \o << c >> \o Join(Tail(tokens), c)

\* Model names: with or without each prefix, one to MaxTokens tokens.
ModelNames ==
    { p1 \o p2 \o Join(toks, "_") :
        p1 \in { <<>>, << "FSLTL", "_" >> },
        p2 \in { <<>>, << "FAIB", "_" >>, << "FSLTL", "_" >> },
        toks \in UNION { [1..k -> NameTokens] : k \in 1..MaxTokens } }

\* The names given to whole tasks: those of one or two tokens.
TaskNames ==
    { p1 \o p2 \o Join(toks, "_") :
        p1 \in { <<>>, << "FSLTL", "_" >> },
        p2 \in { <<>>, << "FAIB", "_" >>, << "FSLTL", "_" >> },
        toks \in UNION { [1..k -> NameTokens] : k \in 1..2 } }

\* `if airline_code:` : neither None nor the empty string.
Truthy(code) == ~code.null /\ code.text # <<>>

\* The output of one task below the output root: the directories of
\* model_output, and the type and code put into the result.
ModelOutput(name) ==
    [model_output |->
        << parse_model_name(name)[1],
           IF Truthy(parse_model_name(name)[2])
           THEN parse_model_name(name)[2].text ELSE << "base" >> >>,
     aircraft_type |-> parse_model_name(name)[1],
     airline_code |-> parse_model_name(name)[2]]

\* --sample: the first model of every aircraft type, in list order.
RECURSIVE SampledModels(_, _)
SampledModels(models, seen_types) ==
    IF models = <<>> THEN <<>>
    ELSE IF parse_model_name(Head(models))[1] \in seen_types
      THEN SampledModels(Tail(models), seen_types)
      ELSE << Head(models) >>
             \o SampledModels(Tail(models),
                   seen_types \cup { parse_model_name(Head(models))[1] })

\* The output paths of the tasks main submits for a batch, in list order.
TaskOutputs(batch) ==
    LET models == IF batch.sample THEN SampledModels(batch.names, {})
                  ELSE batch.names
    IN  [i \in DOMAIN models |-> ModelOutput(models[i]).model_output]

\* Batches of two different names, the second from a short list.
SecondNames ==
    { << "FSLTL", "_", "B738", "_", "AAL" >>,
      << "FSLTL", "_", "B738", "_", "ZZZZ" >> }

Batches ==
    [names : { << a, b >> : a \in TaskNames \ SecondNames,
                            b \in SecondNames },
     sample : BOOLEAN]

\* ---------------------------------------------- resolver: LOD selection

\* A scene file of a model directory: the LOD index in its name (-1 for
\* none), whether its name contains INTERIOR, and its content: readable as
\* JSON or not, and the counts of the POSITION accessors of its primitives.
RECURSIVE SumSeq(_)
SumSeq(counts) ==
    IF counts = <<>> THEN 0 ELSE Head(counts) + SumSeq(Tail(counts))

\* get_gltf_vertex_count: 0 when the file cannot be read or parsed.
get_gltf_vertex_count(scene) ==
    IF scene.readable THEN SumSeq(scene.counts) ELSE 0

\* A threshold test that refuses a file of exactly the ceiling.
UnderThresholdStrict(vertex_count) == vertex_count < MAX_PREFERRED_VERTICES

\* `vertex_count <= MAX_PREFERRED_VERTICES`.
UnderThreshold(vertex_count) == vertex_count <= MAX_PREFERRED_VERTICES

\* lod_sort_key: (0, n) for LODn, (1, 0) without a number.
lod_sort_key(f) == IF f.lod >= 0 THEN << 0, f.lod >> ELSE << 1, 0 >>

KeyLess(a, b) == a[1] < b[1] \/ (a[1] = b[1] /\ a[2] < b[2])

\* list.sort(key=lod_sort_key): stable, equal keys keep the listing order.
RECURSIVE InsertByKey(_, _)
InsertByKey(sorted, f) ==
    IF sorted = <<>> THEN << f >>
    ELSE IF KeyLess(lod_sort_key(f), lod_sort_key(Head(sorted)))
      THEN << f >> \o sorted
      ELSE << Head(sorted) >> \o InsertByKey(Tail(sorted), f)

RECURSIVE SortByLod(_)
SortByLod(files) ==
    IF files = <<>> THEN <<>>
    ELSE InsertByKey(SortByLod(SubSeq(files, 1, Len(files) - 1)),
                     files[Len(files)])

\* The loop over the sorted files from position i on.
RECURSIVE PickLod(_, _)
PickLod(sorted, i) ==
    IF i > Len(sorted) THEN sorted[1].id
    ELSE IF \/ UnderThreshold(get_gltf_vertex_count(sorted[i].scene))
            \/ sorted[i].id = sorted[Len(sorted)].id
      THEN sorted[i].id
      ELSE PickLod(sorted, i + 1)

\* glob("*.gltf") + glob("*.GLTF"): where file names match without regard
\* to case both patterns yield every file, so each file is listed twice.
all_gltf(model_dir) ==
    IF model_dir.fold THEN model_dir.listing \o model_dir.listing
    ELSE model_dir.listing

\* A selection that walks every file, interior ones included.
FindGltfNoFilter(model_dir) ==
    IF all_gltf(model_dir) = <<>> THEN 0
    ELSE PickLod(SortByLod(all_gltf(model_dir)), 1)

\* find_gltf_in_model_dir: the id of the file returned, 0 for None.
find_gltf_in_model_dir(model_dir) ==
    IF all_gltf(model_dir) = <<>> THEN 0
    ELSE LET exterior ==
                 SelectSeq(all_gltf(model_dir), LAMBDA f : ~f.interior)
         IN  PickLod(SortByLod(IF exterior = <<>> THEN all_gltf(model_dir)
                               ELSE exterior), 1)

\* Contents tried: unreadable, at the ceiling in one primitive, one vertex
\* above it in two.
Scenes ==
    { [readable |-> FALSE, counts |-> <<>>],
      [readable |-> TRUE, counts |-> << MAX_PREFERRED_VERTICES >>],
      [readable |-> TRUE, counts |-> << MAX_PREFERRED_VERTICES, 1 >>] }

\* Listings of up to MaxFiles files, in the order glob yields them.
SceneFiles == [lod : -1..MaxLod, interior : BOOLEAN, scene : Scenes]

Listings ==
    { [i \in DOMAIN q |->
          [id |-> i, lod |-> q[i].lod, interior |-> q[i].interior,
           scene |-> q[i].scene]] : q \in SeqsUpTo(SceneFiles, MaxFiles) }

ModelDirs == [listing : Listings, fold : BOOLEAN]

\* --------------------------------------------- resolver: texture lookup

\* A file name is a sequence of atoms: a stem and its dotted suffixes.
\* The extensions find_texture_file appends, in the order it tries them.
TextureExts ==
    << << ".DDS" >>, << ".dds" >>, << ".PNG" >>, << ".png" >>,
       << ".png", ".dds" >>, << ".PNG", ".DDS" >>, <<>> >>

NoTexture == [loc |-> 0, name |-> <<>>]

\* The first extension from position k on under which texture_name exists
\* among files, 0 when there is none.
RECURSIVE FirstExt(_, _, _)
FirstExt(texture_name, files, k) ==
    IF k > Len(TextureExts) THEN 0
    ELSE IF (texture_name \o TextureExts[k]) \in files THEN k
    ELSE FirstExt(texture_name, files, k + 1)

\* The loop over the locations from position i on; location 1 is the model
\* directory, the texture directories follow in list order.
RECURSIVE FindInLocations(_, _, _)
FindInLocations(texture_name, locations, i) ==
    IF i > Len(locations) THEN NoTexture
    ELSE IF FirstExt(texture_name, locations[i], 1) # 0
      THEN [loc |-> i,
            name |-> texture_name
                       \o TextureExts[FirstExt(texture_name, locations[i], 1)]]
      ELSE FindInLocations(texture_name, locations, i + 1)

find_texture_file(texture_name, model_dir, texture_dirs) ==
    FindInLocations(texture_name, << model_dir >> \o texture_dirs, 1)

\* Path(uri).stem: the name without its last suffix.
Stem(uri) == IF Len(uri) > 1 THEN SubSeq(uri, 1, Len(uri) - 1) ELSE uri

\* base_name: the stem, less a trailing .PNG or .png.
BaseName(uri) ==
    IF Len(Stem(uri)) > 1 /\ Stem(uri)[Len(Stem(uri))] \in { ".PNG", ".png" }
    THEN SubSeq(Stem(uri), 1, Len(Stem(uri)) - 1)
    ELSE Stem(uri)

\* The lookup of one image of convert_single_gltf: the full URI first, the
\* base name only when the full URI is found nowhere.
texture_path(uri, model_dir, texture_dirs) ==
    IF find_texture_file(uri, model_dir, texture_dirs) # NoTexture
    THEN find_texture_file(uri, model_dir, texture_dirs)
    ELSE find_texture_file(BaseName(uri), model_dir, texture_dirs)

\* Image URIs and the files a directory may hold.
ImageUris == { << "tex", ".PNG", ".DDS" >>, << "tex", ".png" >> }

TextureFiles ==
    { << "tex", ".PNG", ".DDS" >>, << "tex", ".DDS" >>, << "tex", ".png" >>,
      << "other", ".DDS" >> }

TextureLookups ==
    [uri : ImageUris, model_dir : SUBSET TextureFiles,
     texture_dirs : SeqsUpTo(SUBSET TextureFiles, MaxTexDirs)]

\* ------------------------------------------- resolver: configuration

\* A line of aircraft.cfg: whether it holds '=', and the text on both sides.
\* str.lower of the keys tried.
Lower(key) ==
    CASE key = "BASE_CONTAINER" -> "base_container"
      [] key = "Texture" -> "texture"
      [] OTHER -> key

\* result[key] = value.
Put(dict, key, value) ==
    [k \in DOMAIN dict \cup { key } |->
        IF k = key THEN value ELSE dict[k]]

\* cfg.get(key, '').
Get(cfg, key) == IF key \in DOMAIN cfg THEN cfg[key] ELSE ""

EmptyCfg == [k \in {} |-> ""]

\* The loop over the lines of aircraft.cfg.
RECURSIVE ParseAircraftLines(_, _)
ParseAircraftLines(lines, dict) ==
    IF lines = <<>> THEN dict
    ELSE ParseAircraftLines(Tail(lines),
           IF /\ Head(lines).eq
              /\ Lower(Head(lines).key) \in
                    { "base_container", "model", "texture" }
           THEN Put(dict, Lower(Head(lines).key), Head(lines).value)
           ELSE dict)

\* parse_aircraft_cfg: {} when the file does not exist.
parse_aircraft_cfg(cfg) ==
    IF ~cfg.exists THEN EmptyCfg ELSE ParseAircraftLines(cfg.lines, EmptyCfg)

\* A line of model.cfg, by what the code meets on it:
\*   other   it does not start with normal=
\*   empty   normal= with nothing after it
\*   notxml  the path does not end in .xml
\*   nul     the path holds a NUL character
\*   nodir   the directory of the path does not exist
\*   nogltf  the directory exists and holds no scene of that stem
\*   lod0    <stem>_LOD0.gltf exists
\*   glob    <stem>*.gltf matches a file
ModelCfgLines ==
    { "other", "empty", "notxml", "nul", "nodir", "nogltf", "lod0", "glob" }

\* The loop over the lines of model.cfg from position i on: the position
\* of the line whose scene is returned, 0 for None.  resolve() of a path
\* with a NUL character raises ValueError where the platform rejects such
\* paths (nulRaises); the handler around the whole loop swallows it and the
\* function returns None.  Where resolve() accepts the path, no file of
\* that name exists and the line yields nothing.
RECURSIVE ScanModelCfg(_, _, _)
ScanModelCfg(lines, i, nulRaises) ==
    IF i > Len(lines) THEN 0
    ELSE IF lines[i] \in { "lod0", "glob" } THEN i
    ELSE IF lines[i] = "nul" /\ nulRaises THEN 0
    ELSE ScanModelCfg(lines, i + 1, nulRaises)

parse_model_cfg(cfg, nulRaises) ==
    IF ~cfg.exists THEN 0 ELSE ScanModelCfg(cfg.lines, 1, nulRaises)

\* The scene a `normal=<dir>/<stem>.xml` line yields in the directory it
\* names, whose scene files all start with <stem>: <stem>_LOD0.gltf when
\* it exists, else the first file <stem>*.gltf matches; 0 for none.  No
\* vertex count is read.
ReferencedScene(model_dir) ==
    LET lod0 == { i \in DOMAIN model_dir.listing :
                    /\ model_dir.listing[i].lod = 0
                    /\ ~model_dir.listing[i].interior }
    IN  IF lod0 # {}
        THEN model_dir.listing[CHOOSE i \in lod0 : \A j \in lod0 : i <= j].id
        ELSE IF model_dir.listing # <<>> THEN model_dir.listing[1].id
        ELSE 0

NotFound ==
    [raised |-> "none", gltf |-> "none", texture_dirs |-> <<>>,
     base_dir |-> "none"]

\* Whether the scan of the model directories from position i on finds a
\* scene.
RECURSIVE AnyModelDirHasGltf(_, _)
AnyModelDirHasGltf(model_dirs, i) ==
    IF i > Len(model_dirs) THEN FALSE
    ELSE IF find_gltf_in_model_dir(model_dirs[i].scenes) # 0 THEN TRUE
    ELSE AnyModelDirHasGltf(model_dirs, i + 1)

\* The first loop: the scene named by the first model.cfg that names one.
RECURSIVE GltfFromCfg(_, _, _)
GltfFromCfg(model_dirs, i, nulRaises) ==
    IF i > Len(model_dirs) THEN 0
    ELSE IF parse_model_cfg(model_dirs[i].model_cfg, nulRaises) # 0
      THEN parse_model_cfg(model_dirs[i].model_cfg, nulRaises)
      ELSE GltfFromCfg(model_dirs, i + 1, nulRaises)

\* The texture directories of a livery: the suffixed ones when the
\* configuration names a suffix, then every texture directory of the
\* livery, then those of the base.
LiveryTextureDirs(texture_suffix) ==
    (IF texture_suffix # "" THEN << "livery_suffix" >> ELSE <<>>)
        \o << "livery", "base" >>

\* A resolver that scans the base before it looks at the reference of
\* model.cfg.
FindModelGltfScanFirst(aircraft_dir) ==
    LET gltf_from_cfg ==
            GltfFromCfg(aircraft_dir.model_dirs, 1, aircraft_dir.nulRaises)
        cfg == parse_aircraft_cfg(aircraft_dir.aircraft_cfg)
        base_container == Get(cfg, "base_container")
        texture_suffix == Get(cfg, "texture")
        base_has_gltf ==
            find_gltf_in_model_dir(aircraft_dir.base_scenes) # 0
    IN  IF AnyModelDirHasGltf(aircraft_dir.model_dirs, 1)
        THEN [raised |-> "none", gltf |-> "direct",
              texture_dirs |-> << "own" >>, base_dir |-> "none"]
        ELSE IF base_container = "" THEN NotFound
        ELSE IF base_container = "nul" /\ aircraft_dir.nulRaises
          THEN [NotFound EXCEPT !.raised = "ValueError"]
        ELSE IF base_container # "base" THEN NotFound
        ELSE IF base_has_gltf
          THEN [raised |-> "none", gltf |-> "base",
                texture_dirs |-> LiveryTextureDirs(texture_suffix),
                base_dir |-> "base"]
        ELSE IF gltf_from_cfg # 0
          THEN [raised |-> "none", gltf |-> "cfg",
                texture_dirs |-> LiveryTextureDirs(texture_suffix),
                base_dir |-> "base"]
        ELSE NotFound

\* find_model_gltf.  base_container is "base" for a path that exists,
\* "gone" for one that does not, "nul" for one with a NUL character, which
\* resolve() at the top level of the function, outside any handler,
\* rejects with ValueError where nulRaises.
find_model_gltf(aircraft_dir) ==
    LET gltf_from_cfg ==
            GltfFromCfg(aircraft_dir.model_dirs, 1, aircraft_dir.nulRaises)
        cfg == parse_aircraft_cfg(aircraft_dir.aircraft_cfg)
        base_container == Get(cfg, "base_container")
        texture_suffix == Get(cfg, "texture")
        base_has_gltf ==
            find_gltf_in_model_dir(aircraft_dir.base_scenes) # 0
    IN  IF AnyModelDirHasGltf(aircraft_dir.model_dirs, 1)
        THEN [raised |-> "none", gltf |-> "direct",
              texture_dirs |-> << "own" >>, base_dir |-> "none"]
        ELSE IF base_container = "" THEN NotFound
        ELSE IF base_container = "nul" /\ aircraft_dir.nulRaises
          THEN [NotFound EXCEPT !.raised = "ValueError"]
        ELSE IF base_container # "base" THEN NotFound
        ELSE IF gltf_from_cfg # 0
          THEN [raised |-> "none", gltf |-> "cfg",
                texture_dirs |-> LiveryTextureDirs(texture_suffix),
                base_dir |-> "base"]
        ELSE IF base_has_gltf
          THEN [raised |-> "none", gltf |-> "base",
                texture_dirs |-> LiveryTextureDirs(texture_suffix),
                base_dir |-> "base"]
        ELSE NotFound

\* Lines of aircraft.cfg tried: one without '=', the three recognised keys
\* (two of them also in another case), an unrecognised key.
BaseContainers == { "", "base", "gone", "nul" }

AircraftCfgLines ==
    { [eq |-> FALSE, key |-> "", value |-> ""],
      [eq |-> TRUE, key |-> "title", value |-> "x"],
      [eq |-> TRUE, key |-> "model", value |-> "M"],
      [eq |-> TRUE, key |-> "texture", value |-> ""],
      [eq |-> TRUE, key |-> "texture", value |-> "LIV"],
      [eq |-> TRUE, key |-> "Texture", value |-> "LIV2"] }
    \cup { [eq |-> TRUE, key |-> k, value |-> v] :
             k \in { "base_container", "BASE_CONTAINER" },
             v \in BaseContainers }

NoFile == [exists |-> FALSE, lines |-> <<>>]

AircraftCfgs ==
    { NoFile } \cup [exists : { TRUE },
                     lines : SeqsUpTo(AircraftCfgLines, MaxLines)]

ModelCfgs ==
    { NoFile } \cup [exists : { TRUE },
                     lines : SeqsUpTo(ModelCfgLines, MaxLines)]

ModelCfgCalls == [cfg : ModelCfgs, nulRaises : BOOLEAN]

\* Directories for find_model_gltf: at most one model directory, empty or
\* with one scene, its model.cfg of at most one line; aircraft.cfg with at
\* most a base_container line followed by a texture line.
SmallDirs ==
    { [listing |-> <<>>, fold |-> FALSE],
      [listing |-> << [id |-> 1, lod |-> 0, interior |-> FALSE,
                       scene |-> [readable |-> TRUE,
                                  counts |-> << MAX_PREFERRED_VERTICES >>]] >>,
       fold |-> FALSE] }

SmallModelCfgs ==
    { NoFile } \cup [exists : { TRUE }, lines : SeqsUpTo(ModelCfgLines, 1)]

SmallAircraftCfgs ==
    { NoFile }
    \cup { [exists |-> TRUE,
            lines |-> << [eq |-> TRUE, key |-> "base_container",
                          value |-> v] >> \o t] :
             v \in BaseContainers,
             t \in { <<>>, << [eq |-> TRUE, key |-> "texture",
                               value |-> "LIV"] >> } }

AircraftDirs ==
    [model_dirs : SeqsUpTo([scenes : SmallDirs, model_cfg : SmallModelCfgs],
                           1),
     aircraft_cfg : SmallAircraftCfgs,
     base_scenes : SmallDirs,
     nulRaises : BOOLEAN]

\* ------------------------------------------------ resolver: one call

resolverFrame == << batchVars, transVars, texVars >>

InitResolver ==
    /\ rpc = "call"
    /\ rret = <<>>
    /\ \/ rfn = "parse_model_name" /\ rarg \in ModelNames
       \/ rfn = "convert_model_task" /\ rarg \in TaskNames
       \/ rfn = "main" /\ rarg \in Batches
       \/ rfn = "find_gltf_in_model_dir" /\ rarg \in ModelDirs
       \/ rfn = "parse_model_cfg.normal" /\ rarg \in ModelDirs
       \/ rfn = "find_texture_file" /\ rarg \in TextureLookups
       \/ rfn = "parse_aircraft_cfg" /\ rarg \in AircraftCfgs
       \/ rfn = "parse_model_cfg" /\ rarg \in ModelCfgCalls
       \/ rfn = "find_model_gltf" /\ rarg \in AircraftDirs
    /\ TexconvOff
    /\ tpc = "off"
    /\ gltf = NoDoc
    /\ tres = NoTranscode
    /\ BatchOff

CallParseModelName ==
    /\ rpc = "call"
    /\ rfn = "parse_model_name"
    /\ rret' = parse_model_name(rarg)
    /\ rpc' = "returned"
    /\ UNCHANGED << rfn, rarg, resolverFrame >>

CallFindGltfInModelDir ==
    /\ rpc = "call"
    /\ rfn = "find_gltf_in_model_dir"
    /\ rret' = find_gltf_in_model_dir(rarg)
    /\ rpc' = "returned"
    /\ UNCHANGED << rfn, rarg, resolverFrame >>

CallFindTextureFile ==
    /\ rpc = "call"
    /\ rfn = "find_texture_file"
    /\ rret' = texture_path(rarg.uri, rarg.model_dir, rarg.texture_dirs)
    /\ rpc' = "returned"
    /\ UNCHANGED << rfn, rarg, resolverFrame >>

CallParseAircraftCfg ==
    /\ rpc = "call"
    /\ rfn = "parse_aircraft_cfg"
    /\ rret' = parse_aircraft_cfg(rarg)
    /\ rpc' = "returned"
    /\ UNCHANGED << rfn, rarg, resolverFrame >>

CallParseModelCfg ==
    /\ rpc = "call"
    /\ rfn = "parse_model_cfg"
    /\ rret' = parse_model_cfg(rarg.cfg, rarg.nulRaises)
    /\ rpc' = "returned"
    /\ UNCHANGED << rfn, rarg, resolverFrame >>

CallFindModelGltf ==
    /\ rpc = "call"
    /\ rfn = "find_model_gltf"
    /\ rret' = find_model_gltf(rarg)
    /\ rpc' = "returned"
    /\ UNCHANGED << rfn, rarg, resolverFrame >>

\* The part of convert_model_task that decides where the output goes.
CallModelOutput ==
    /\ rpc = "call"
    /\ rfn = "convert_model_task"
    /\ rret' = ModelOutput(rarg)
    /\ rpc' = "returned"
    /\ UNCHANGED << rfn, rarg, resolverFrame >>

\* The part of main that turns the model list into tasks.
CallTaskOutputs ==
    /\ rpc = "call"
    /\ rfn = "main"
    /\ rret' = TaskOutputs(rarg)
    /\ rpc' = "returned"
    /\ UNCHANGED << rfn, rarg, resolverFrame >>

\* The part of parse_model_cfg that turns one `normal=` line into a scene.
CallReferencedScene ==
    /\ rpc = "call"
    /\ rfn = "parse_model_cfg.normal"
    /\ rret' = ReferencedScene(rarg)
    /\ rpc' = "returned"
    /\ UNCHANGED << rfn, rarg, resolverFrame >>

NextResolver ==
    \/ CallParseModelName
    \/ CallReferencedScene
    \/ CallModelOutput
    \/ CallTaskOutputs
    \/ CallFindGltfInModelDir
    \/ CallFindTextureFile
    \/ CallParseAircraftCfg
    \/ CallParseModelCfg
    \/ CallFindModelGltf

SpecResolver == InitResolver /\ [][NextResolver]_vars

\* ------------------------------------------------------------ properties

NumModels == Cardinality(DOMAIN kind)

UnresolvedCount == Cardinality({t \in DOMAIN kind : kind[t] = "notfound"})

\* main returned (the process left through sys.exit(main())).
MainReturned == pc = "exited" /\ crash = "none"

\* Model t has its own entry in the progress dict.
Recorded(t) ==
    IF kind[t] = "ok"
      THEN \E i \in 1..Len(progress.converted) :
              progress.converted[i].modelName = t
      ELSE \E i \in 1..Len(progress.errors) :
              progress.errors[i] = [model |-> t, msg |-> result[t].error]

\* C1: a batch of N models of which K have no resolvable scene file and the
\* others convert, run with every progress write succeeding, ends with
\* completed = N, K errors, N-K converted entries, status "error" if K > 0
\* and "complete" otherwise, in memory and in the progress file, whatever
\* order the tasks completed in.
C1_BatchCounts ==
    ( /\ MainReturned
      /\ faults = 0
      /\ \A t \in DOMAIN kind : kind[t] \in {"ok", "notfound"} )
    => /\ progress.completed = NumModels
       /\ Len(progress.errors) = UnresolvedCount
       /\ Len(progress.converted) = NumModels - UnresolvedCount
       /\ progress.status = IF UnresolvedCount > 0 THEN "error" ELSE "complete"
       /\ argPF => file = [st |-> "full", rec |-> progress]

C1_Witness ==
    /\ MainReturned
    /\ faults = 0
    /\ argPF
    /\ kind = << "notfound", "ok" >>
    /\ progress.completed = 2
    /\ progress.status = "error"

\* C2: the external reader, reading after the first write of the run, never
\* finds the progress file empty or holding only part of a JSON text.
C2_NoTornRead == readerSaw \in {"none", "full"}

\* C3: over the records written to the progress file in one run, by any
\* code path, `completed` never decreases.
C3_CompletedNeverDecreases ==
    [][lastRec'.completed >= lastRec.completed]_vars

StatusRank(s) ==
    CASE s = "scanning" -> 0
      [] s = "converting" -> 1
      [] OTHER -> 2

StatusForward ==
    \A i, j \in 1..Len(statusLog) :
        i < j => StatusRank(statusLog[i]) <= StatusRank(statusLog[j])

ConvertingAfterListFinal ==
    (\E i \in 1..Len(statusLog) : statusLog[i] = "converting")
    => progress.status # "none" /\ progress.total = NumModels

TerminalIsLast ==
    \A i \in 1..Len(statusLog) : statusLog[i] \in Terminal => i = Len(statusLog)

\* The tasks exist from executor.submit on; none exists before.
NoTaskYet == \A t \in DOMAIN kind : fut[t] = "unsubmitted"

AllTasksHaveResult == \A t \in DOMAIN kind : fut[t] = "done"

\* C4: the statuses written to the progress file only move forward along
\* scanning -> converting -> {complete, error}; "converting" is not written
\* before the list of requested models is final; a terminal status, written
\* by main or by the process-level handlers, is written only when every task
\* handed to the pool has a result; and a terminal status is never followed
\* by another status.
C4_StatusOrder ==
    /\ StatusForward
    /\ ConvertingAfterListFinal
    /\ (\E i \in 1..Len(statusLog) : statusLog[i] \in Terminal)
       => (NoTaskYet \/ AllTasksHaveResult)
    /\ (lastRec.status \in Terminal /\ lastRec.startup_error = "absent")
       => (AllTasksHaveResult /\ yielded = DOMAIN kind)
    /\ TerminalIsLast

C4_Witness ==
    /\ pc = "exited"
    /\ crash = "crash"
    /\ statusLog = << "converting", "error" >>
    /\ NumModels = 2
    /\ yielded # DOMAIN kind
    /\ AllTasksHaveResult

\* C5: a task whose work raises ends as a future holding a failure dict of
\* its own (never an exception), and every task the loop has been handed,
\* which is every task once main returns, has its own entry in the
\* progress dict whatever happened to the others.
C5_TaskErrorsIsolated ==
    /\ \A t \in DOMAIN kind :
          fut[t] = "done" =>
             /\ ~result[t].raised
             /\ result[t].model_name = t
             /\ result[t].success = (kind[t] = "ok")
             /\ kind[t] # "ok" => result[t].error # "none"
    /\ \A t \in yielded : Recorded(t)
    /\ (pc = "final_write" \/ MainReturned) => yielded = DOMAIN kind

C5_Witness ==
    /\ MainReturned
    /\ \E t, u \in DOMAIN kind :
          /\ kind[t] = "raise"
          /\ kind[u] = "ok"
          /\ Recorded(t)
          /\ Recorded(u)

\* C7: a failure of any startup import, with a progress file on the command
\* line and the write itself not failing, ends with the startup record in
\* the progress file and a non-zero exit status.
C7_StartupFailureRecorded ==
    ( /\ pc = "exited"
      /\ crash \in {"import", "startup", "NameError"}
      /\ argPF
      /\ guardWrote # "failed" )
    => /\ exitCode # 0
       /\ file.st = "full"
       /\ file.rec.status = "error"
       /\ file.rec.total = 0
       /\ file.rec.completed = 0
       /\ file.rec.current = 0
       /\ Len(file.rec.errors) = 1
       /\ file.rec.converted = <<>>
       /\ file.rec.startup_error # "absent"

TranscodeDone == tpc = "done"

\* The accessors the UV loop converts: named by TEXCOORD_0, declared SHORT.
Float16Uv(doc) ==
    { a \in DOMAIN doc.accessors :
        /\ \E p \in DOMAIN doc.prims : doc.prims[p].TEXCOORD_0 = a
        /\ doc.accessors[a].componentType = 5122 }

\* The 4-byte reads of accessor a that would end past the buffer.
OverrunReads(doc, a) ==
    { i \in 0..(doc.accessors[a].count - 1) :
        ReadPos(doc, doc.accessors[a], i) + 4 > doc.binLen }

Overruns(doc) == \E a \in Float16Uv(doc) : OverrunReads(doc, a) # {}

\* C6: whenever some element read of a float16 TEXCOORD_0 accessor would
\* end past the geometry buffer, convert_single_gltf raises the bounds error
\* (unless the image loop before it already raised), writes nothing, and the task wrapper reports success = false; every read
\* it did perform lies inside the buffer; and the single-file converter's
\* unchecked read of such an element raises instead of yielding data.
C6_UvBoundsError ==
    TranscodeDone =>
      /\ Overruns(gltf) =>
            /\ tres.raised = IF ImagesRaise(gltf.images) THEN "DecodeError"
                             ELSE "ValueError"
            /\ ~tres.success
            /\ tres.written = 0
            /\ ~convert_model_task(1, TaskKind(tres)).success
      /\ \A pos \in tres.reads : pos >= 0 /\ pos + 4 <= gltf.binLen
      /\ \A a \in Float16Uv(gltf) : \A i \in OverrunReads(gltf, a) :
            GlbRead(ReadPos(gltf, gltf.accessors[a], i), gltf.binLen) # "ok"

\* An interleaved accessor whose first element fits and whose second does
\* not: one read done, then the bounds error.
C6_Witness ==
    /\ TranscodeDone
    /\ Overruns(gltf)
    /\ tres.reads # {}
    /\ tres.raised = "ValueError"
    /\ \E a \in Float16Uv(gltf) : 0 \notin OverrunReads(gltf, a)

\* C9: on success the declared total length is 12 + 8 + JSON chunk + 8 +
\* binary chunk, it is the number of bytes written and the reported
\* output_size, both chunk lengths are multiples of 4, and each chunk is
\* its content plus fewer than 4 bytes of padding.
C9_ContainerLength ==
    (TranscodeDone /\ tres.success) =>
      /\ tres.total_length = 12 + 8 + tres.json_len + 8 + tres.bin_len
      /\ tres.written = tres.total_length
      /\ tres.output_size = tres.written
      /\ tres.json_len % 4 = 0
      /\ tres.bin_len % 4 = 0
      /\ tres.json_len - gltf.jsonLen \in 0..3
      /\ tres.bin_len = tres.buffers_byteLength

\* A success whose JSON text, geometry buffer and PNG all need padding.
C9_Witness ==
    /\ TranscodeDone
    /\ tres.success
    /\ gltf.jsonLen % 4 # 0
    /\ gltf.binLen % 4 # 0
    /\ \E i \in DOMAIN gltf.images :
          gltf.images[i].uri /\ gltf.images[i].len % 4 # 0

\* The accessors the output's primitives name as texture coordinates.
TexcoordAccessors(prims) ==
    { prims[p].TEXCOORD_0 : p \in DOMAIN prims }
    \cup { prims[p].TEXCOORD_1 : p \in DOMAIN prims }
    \cup { prims[p].TEXCOORD_2 : p \in DOMAIN prims }

\* C10 as stated: on success every accessor an output primitive names as a
\* texture coordinate has component type 5126, is not flagged normalized and
\* has no min and no max, whatever type it declared in the input.
C10_TexcoordAccessorsFloat ==
    (TranscodeDone /\ tres.success) =>
      \A a \in TexcoordAccessors(tres.prims) \ {0} :
        /\ tres.accessors[a].componentType = 5126
        /\ tres.accessors[a].normalized # "true"
        /\ ~tres.accessors[a].min
        /\ ~tres.accessors[a].max

\* C10 amended: on success every accessor some primitive names as
\* TEXCOORD_0 and the input declared SHORT (5122) has component type 5126,
\* normalized false, no min and no max, and lies in the UV buffer view; every
\* other accessor, texture coordinate or not, is left exactly as it was.
C10_Float16TexcoordRepaired ==
    (TranscodeDone /\ tres.success) =>
      \A a \in DOMAIN gltf.accessors :
        IF a \in Float16Uv(gltf)
          THEN /\ tres.accessors[a].componentType = 5126
               /\ tres.accessors[a].normalized = "false"
               /\ ~tres.accessors[a].min
               /\ ~tres.accessors[a].max
               /\ tres.accessors[a].bufferView = tres.uv_buffer_view_idx
          ELSE tres.accessors[a] = gltf.accessors[a]

\* A success that repaired a normalized SHORT accessor with bounds and left
\* alone a SHORT accessor named only as TEXCOORD_2.
C10_Witness ==
    /\ TranscodeDone
    /\ tres.success
    /\ \E a \in Float16Uv(gltf) :
          gltf.accessors[a].normalized = "true" /\ gltf.accessors[a].min
    /\ \E a \in TexcoordAccessors(tres.prims) \ {0} :
          a \notin Float16Uv(gltf) /\ gltf.accessors[a].componentType = 5122

\* The images whose uri matched no file.
MissingTextures(doc) ==
    { j \in DOMAIN doc.images :
        doc.images[j].uri /\ doc.images[j].texture = "missing" }

\* The images whose texture was found and cannot be decoded.
UndecodableTextures(doc) ==
    { j \in DOMAIN doc.images :
        doc.images[j].uri /\ doc.images[j].texture = "undecodable" }

\* C11: a texture that is not found never fails the asset: the transcode
\* succeeds unless the scene or its buffer could not be loaded, a found
\* texture made the decoder raise or a UV read overran the buffer, and on
\* success the container holds, for every image
\* whose texture was not found, one buffer view with the bytes of a 1x1
\* placeholder PNG drawn for that image.
C11_MissingTexturePlaceholder ==
    TranscodeDone =>
      /\ (/\ gltf.load = "ok"
          /\ UndecodableTextures(gltf) = {}
          /\ ~Overruns(gltf)) => tres.success
      /\ tres.success =>
            \A j \in MissingTextures(gltf) :
              /\ \E k \in DOMAIN tres.added :
                    /\ tres.added[k].image = j
                    /\ tres.added[k].pixels = "1x1"
                    /\ tres.added[k].byteLength = gltf.images[j].len
              /\ Cardinality({ k \in DOMAIN tres.added :
                                 tres.added[k].image = j }) = 1

\* A success on a document with a missing texture beside a decoded one.
C11_Witness ==
    /\ TranscodeDone
    /\ tres.success
    /\ MissingTextures(gltf) # {}
    /\ \E j \in DOMAIN gltf.images : gltf.images[j].texture = "decoded"

\* The buffer view an output image descriptor points at (index 0 of the
\* appended views standing for "none of them").
AddedView(r, doc, bv) ==
    IF bv > Len(doc.bufferViews) /\ bv <= Len(doc.bufferViews) + Len(r.added)
      THEN r.added[bv - Len(doc.bufferViews)]
      ELSE [byteOffset |-> 0, byteLength |-> 0, image |-> 0,
            pixels |-> "none"]

\* C19: after a successful transcode every image that had a uri is a
\* descriptor {bufferView, mimeType "image/png"} whose buffer view holds the
\* bytes converted for that same image, every image without a uri is as it
\* was, and there is one new buffer view per converted image.
C19_ImagesRepointed ==
    (TranscodeDone /\ tres.success) =>
      /\ \A j \in DOMAIN gltf.images :
            IF gltf.images[j].uri
              THEN /\ ~tres.images[j].uri
                   /\ tres.images[j].mimeType = "image/png"
                   /\ AddedView(tres, gltf, tres.images[j].bufferView).image
                        = j
              ELSE tres.images[j] =
                     [uri |-> FALSE, bufferView |-> 0, mimeType |-> "none"]
      /\ Cardinality({ k \in DOMAIN tres.added : tres.added[k].image # 0 })
           = Cardinality({ j \in DOMAIN gltf.images : gltf.images[j].uri })

\* -------------------------------------------------- pool and loop, again

InFlight == Cardinality({ t \in DOMAIN kind : fut[t] = "running" })

\* C15: the tasks in flight never outnumber the pool size (0 until main has
\* fixed it), and the pool size never exceeds the ceiling of 8 whatever
\* --workers was.
C15_PoolBounded ==
    /\ InFlight <= num_workers
    /\ num_workers <= AutoWorkerCap

\* C20: every record written while the batch is converting has
\* completed = len(converted) + len(errors) <= total.
C20_CompletedIsSum ==
    lastRec.status = "converting" =>
      /\ lastRec.completed = Len(lastRec.converted) + Len(lastRec.errors)
      /\ lastRec.completed <= lastRec.total

\* --------------------------------------------- texture conversion claims

\* C14: every call of convert_dds_to_png ends with PNG bytes, those of the
\* texture or of the gray placeholder, and never with an exception.
C14_AlwaysPngBytes ==
    \A t \in DOMAIN thr : thr[t].res \in {"none", "png", "gray"}

\* C17: the candidate paths are probed at most once in a process, and no
\* two threads are inside get_texconv_path at once.
C17_ResolvedOnce ==
    /\ resolutions <= 1
    /\ Cardinality({ t \in DOMAIN thr :
                       thr[t].pc \in {"cached", "resolve"} }) <= 1

\* ------------------------------------------------------- resolver claims

Returned(f) == rpc = "returned" /\ rfn = f

\* The name without its FSLTL_ prefix and then without a FAIB_ prefix.
Unprefixed(name) ==
    LET n1 == IF StartsWith(name, << "FSLTL", "_" >>) THEN Drop(name, 2)
              ELSE name
    IN  IF StartsWith(n1, << "FAIB", "_" >>) THEN Drop(n1, 2) ELSE n1

\* C12: parse_model_name returns the first underscore-separated token of
\* the unprefixed name as aircraft type and the second as airline code (both
\* without surrounding blanks); the code is null exactly when the second
\* token is missing, empty, ZZZZ or ZZZ, and otherwise is the token up to its
\* first hyphen; the four examples of the specification come out as given.
C12_ParseModelName ==
    /\ Returned("parse_model_name") =>
         LET tokens == Split(Unprefixed(rarg), "_")
             second == IF Len(tokens) > 1 THEN Strip(tokens[2]) ELSE <<>>
         IN  /\ rret[1] = Strip(tokens[1])
             /\ rret[2].null <=>
                   \/ Len(tokens) = 1
                   \/ second \in { <<>>, << "ZZZZ" >>, << "ZZZ" >> }
             /\ ~rret[2].null =>
                   /\ Positions(rret[2].text, "-") = {}
                   /\ StartsWith(second, rret[2].text)
                   /\ \/ rret[2].text = second
                      \/ second[Len(rret[2].text) + 1] \in {"-", " "}
    /\ parse_model_name(<< "FSLTL", "_", "B738", "_", "AAL" >>)
         = << << "B738" >>, Code(<< "AAL" >>) >>
    /\ parse_model_name(<< "FSLTL", "_", "B738", "_", "ZZZZ" >>)
         = << << "B738" >>, NoCode >>
    /\ parse_model_name(<< "FSLTL", "_", "FAIB", "_", "A320", "_", "UAL" >>)
         = << << "A320" >>, Code(<< "UAL" >>) >>
    /\ parse_model_name(<< "FSLTL", "_", "B738", "_", "AAL", "-", "Extra" >>)
         = << << "B738" >>, Code(<< "AAL" >>) >>

\* A doubly prefixed name whose code was cut at its hyphen.
C12_Witness ==
    /\ Returned("parse_model_name")
    /\ rarg = << "FSLTL", "_", "FAIB", "_", "B738", "_", "AAL", "-", "Extra" >>
    /\ rret = << << "B738" >>, Code(<< "AAL" >>) >>

\* ---------------------------------------------------------------- C13

FilesOf(model_dir) ==
    { model_dir.listing[i] : i \in DOMAIN model_dir.listing }

\* g comes before f in ascending order of LOD index, index-less last.
LodBefore(g, f) == g.lod >= 0 /\ (f.lod < 0 \/ g.lod < f.lod)

Qualifies(f) == get_gltf_vertex_count(f.scene) <= MAX_PREFERRED_VERTICES

\* The files the selection walks: the exterior ones, all when none is.
Candidates(model_dir) ==
    IF \E f \in FilesOf(model_dir) : ~f.interior
    THEN { f \in FilesOf(model_dir) : ~f.interior }
    ELSE FilesOf(model_dir)

\* r is the first qualifying file of S in LOD order, or the last file of
\* that order when none qualifies; files of equal rank in any order.
FirstQualifying(S, r) ==
    \E f \in S :
        /\ f.id = r
        /\ \/ /\ Qualifies(f)
              /\ \A g \in S : LodBefore(g, f) => ~Qualifies(g)
           \/ /\ \A g \in S : ~Qualifies(g)
              /\ \A g \in S : ~LodBefore(f, g)

\* The same, files of equal rank taken in listing order.
FirstQualifyingStable(S, r) ==
    \E f \in S :
        /\ f.id = r
        /\ \/ /\ Qualifies(f)
              /\ \A g \in S :
                    (LodBefore(g, f) \/ (~LodBefore(f, g) /\ g.id < f.id))
                        => ~Qualifies(g)
           \/ /\ \A g \in S : ~Qualifies(g)
              /\ \A g \in S :
                    ~LodBefore(f, g) /\ (LodBefore(g, f) \/ g.id <= f.id)

LodExample ==
    [listing |->
        << [id |-> 1, lod |-> 0, interior |-> FALSE,
            scene |-> [readable |-> TRUE, counts |-> << 120000 >>]],
           [id |-> 2, lod |-> 1, interior |-> FALSE,
            scene |-> [readable |-> TRUE, counts |-> << 80000 >>]],
           [id |-> 3, lod |-> 2, interior |-> FALSE,
            scene |-> [readable |-> TRUE, counts |-> << 31000 >>]] >>,
     fold |-> FALSE]

\* C13 as stated: for every model directory find_gltf_in_model_dir returns
\* the first of ALL its scene files, in ascending LOD order with index-less
\* files last, whose vertex count is at most 40000, and the last file of
\* that order when none qualifies.
C13_FirstOfAllFiles ==
    (Returned("find_gltf_in_model_dir") /\ rarg.listing # <<>>)
        => FirstQualifying(FilesOf(rarg), rret)

\* C13 amended: the selection walks the files whose name does not contain
\* INTERIOR (all files when every name does), in ascending LOD order with
\* index-less files last and files of equal rank in listing order; it
\* returns the first whose vertex count is at most 40000 (a file that
\* cannot be read counts 0 vertices), the last of that order when none
\* qualifies, and nothing for a directory without scene files; with
\* {LOD0: 120000, LOD1: 80000, LOD2: 31000} it returns LOD2.
C13_LodSelection ==
    /\ Returned("find_gltf_in_model_dir") =>
          IF rarg.listing = <<>> THEN rret = 0
          ELSE FirstQualifyingStable(Candidates(rarg), rret)
    /\ find_gltf_in_model_dir(LodExample) = 3

\* An interior LOD0 file under the ceiling is passed over for the exterior
\* LOD1 file at the ceiling.
C13_Witness ==
    /\ Returned("find_gltf_in_model_dir")
    /\ \E f, g \in FilesOf(rarg) :
          /\ f.interior /\ f.lod = 0 /\ Qualifies(f)
          /\ ~g.interior /\ g.lod = 1
          /\ get_gltf_vertex_count(g.scene) = MAX_PREFERRED_VERTICES
          /\ rret = g.id

\* ---------------------------------------------------------------- C16

\* The names under which a file matches the image: the full URI or the base
\* name, with any of the extensions.
MatchingNames(uri) ==
    { n \o TextureExts[k] : n \in { uri, BaseName(uri) },
                            k \in DOMAIN TextureExts }

LookupLocations == << rarg.model_dir >> \o rarg.texture_dirs

HoldsMatch(i) == LookupLocations[i] \cap MatchingNames(rarg.uri) # {}

\* C16: the texture file used for an image is a match in the
\* highest-priority location that holds any matching file, under the full
\* URI or under the base name: no later directory is chosen when an earlier
\* one contains a match.
C16_HighestPriorityMatch ==
    Returned("find_texture_file") =>
        IF \E i \in DOMAIN LookupLocations : HoldsMatch(i)
        THEN /\ rret.loc \in DOMAIN LookupLocations
             /\ HoldsMatch(rret.loc)
             /\ rret.name \in LookupLocations[rret.loc]
             /\ \A i \in 1..(rret.loc - 1) : ~HoldsMatch(i)
        ELSE rret = NoTexture

\* ---------------------------------------------------------------- C18

\* The value of the last line of lines that sets key, "" when none does.
RECURSIVE LastValue(_, _)
LastValue(lines, key) ==
    IF lines = <<>> THEN ""
    ELSE IF lines[Len(lines)].eq /\ Lower(lines[Len(lines)].key) = key
      THEN lines[Len(lines)].value
      ELSE LastValue(SubSeq(lines, 1, Len(lines) - 1), key)

NamesScene(line) == line \in { "lod0", "glob" }

\* A scene can be located by the direct path, by the reference of a
\* model.cfg, or by the scan of the base named by aircraft.cfg.
Locatable(aircraft_dir) ==
    \/ \E i \in DOMAIN aircraft_dir.model_dirs :
          \/ aircraft_dir.model_dirs[i].scenes.listing # <<>>
          \/ \E j \in DOMAIN aircraft_dir.model_dirs[i].model_cfg.lines :
                NamesScene(aircraft_dir.model_dirs[i].model_cfg.lines[j])
    \/ /\ LastValue(aircraft_dir.aircraft_cfg.lines, "base_container")
            = "base"
       /\ aircraft_dir.base_scenes.listing # <<>>

\* C18: find_model_gltf returns the not-found result whenever no scene can
\* be located by the direct path, the model.cfg reference or the base scan;
\* parse_aircraft_cfg and parse_model_cfg never raise, skip the lines that
\* are malformed or unrecognised and still interpret the remaining ones:
\* parse_aircraft_cfg yields the value of the last line of each recognised
\* key, parse_model_cfg the scene of the first line that names one.
C18_NotFoundNeverFatal ==
    /\ (Returned("find_model_gltf") /\ ~Locatable(rarg)) => rret = NotFound
    /\ Returned("parse_aircraft_cfg") =>
          \A key \in { "base_container", "model", "texture" } :
              Get(rret, key) = LastValue(rarg.lines, key)
    /\ Returned("parse_model_cfg") =>
          IF \E j \in DOMAIN rarg.cfg.lines : NamesScene(rarg.cfg.lines[j])
          THEN /\ rret \in DOMAIN rarg.cfg.lines
               /\ NamesScene(rarg.cfg.lines[rret])
               /\ \A j \in 1..(rret - 1) : ~NamesScene(rarg.cfg.lines[j])
          ELSE rret = 0

\* ---------------------------------------------------------------- C25

ReturnedFile == rarg.listing[rret]

\* C25 as stated: LOD selection never returns a scene file whose name
\* contains INTERIOR, whatever the model directory holds.
C25_NeverInterior ==
    (Returned("find_gltf_in_model_dir") /\ rret # 0)
        => ~ReturnedFile.interior

\* C25 amended: LOD selection returns a file whose name contains INTERIOR
\* only when every scene file of the model directory does; when the
\* directory holds an exterior file the file returned is exterior, and
\* when it holds scene files at all one of them is returned.
C25_InteriorOnlyAsFallback ==
    Returned("find_gltf_in_model_dir") =>
        /\ rret = 0 <=> rarg.listing = <<>>
        /\ rret # 0 =>
              /\ rret \in DOMAIN rarg.listing
              /\ ReturnedFile.interior
                     <=> \A f \in FilesOf(rarg) : f.interior

\* An interior file listed first, an index-less exterior file after it:
\* the exterior one is returned.
C25_Witness ==
    /\ Returned("find_gltf_in_model_dir")
    /\ Len(rarg.listing) = 2
    /\ rarg.listing[1].interior /\ rarg.listing[1].lod = 0
    /\ Qualifies(rarg.listing[1])
    /\ ~rarg.listing[2].interior /\ rarg.listing[2].lod = -1
    /\ rret = 2

\* ---------------------------------------------------------------- C28

\* C28: the airline code of every asset name is null or a non-empty
\* string, so the code put into the result is null exactly when the output
\* path uses the base directory.
C28_CodeNullOrNonEmpty ==
    Returned("convert_model_task") =>
        /\ rret.airline_code.null \/ rret.airline_code.text # <<>>
        /\ rret.airline_code.null <=> rret.model_output[2] = << "base" >>

\* ---------------------------------------------------------------- C27

\* C27: the different asset names of one batch are mapped to pairwise
\* different output paths, so no two tasks write the same file.
C27_DistinctOutputs ==
    Returned("main") =>
        \A i, j \in DOMAIN rret : i # j => rret[i] # rret[j]

\* ---------------------------------------------------------------- C24

\* A model subdirectory of the asset holds a scene file.
HasOwnScene(aircraft_dir) ==
    \E i \in DOMAIN aircraft_dir.model_dirs :
        aircraft_dir.model_dirs[i].scenes.listing # <<>>

\* aircraft.cfg names a base container that exists.
NamesBase(aircraft_dir) ==
    LastValue(aircraft_dir.aircraft_cfg.lines, "base_container") = "base"

\* A model.cfg of the asset yields an explicit scene reference.
ReferenceFound(aircraft_dir) ==
    \E i \in DOMAIN aircraft_dir.model_dirs :
        parse_model_cfg(aircraft_dir.model_dirs[i].model_cfg,
                        aircraft_dir.nulRaises) # 0

\* C24: an asset with a scene file in one of its own model directories is
\* resolved as a base asset (own scene, own texture directories, no base),
\* whatever its configuration says; it is a livery only when it has no own
\* scene and base_container names an existing directory, and then the
\* reference of its model.cfg is used when one is found, the scan of the
\* base's model directories when none is.
C24_BaseBeforeLivery ==
    Returned("find_model_gltf") =>
        /\ HasOwnScene(rarg) =>
              rret = [raised |-> "none", gltf |-> "direct",
                      texture_dirs |-> << "own" >>, base_dir |-> "none"]
        /\ rret.base_dir # "none" => ~HasOwnScene(rarg) /\ NamesBase(rarg)
        /\ (~HasOwnScene(rarg) /\ NamesBase(rarg)) =>
              IF ReferenceFound(rarg)
              THEN rret.gltf = "cfg" /\ rret.base_dir = "base"
              ELSE IF rarg.base_scenes.listing # <<>>
                THEN rret.gltf = "base" /\ rret.base_dir = "base"
                ELSE rret = NotFound

\* A livery whose model.cfg names a scene, over a base that holds a scene
\* of its own: the named scene is used.
C24_Witness ==
    /\ Returned("find_model_gltf")
    /\ ~HasOwnScene(rarg) /\ NamesBase(rarg)
    /\ ReferenceFound(rarg)
    /\ rarg.base_scenes.listing # <<>>
    /\ rret.gltf = "cfg"

\* ---------------------------------------------------------------- C30

WithinBudgetAvailable(model_dir) ==
    \E f \in FilesOf(model_dir) : ~f.interior /\ Qualifies(f)

\* C30: the scene resolved for a livery, through the reference of its
\* model.cfg or through the scan of the base, has at most 40000 vertices
\* whenever the model directory it is taken from holds an exterior scene
\* within the ceiling.
C30_LiveryWithinBudget ==
    /\ ( /\ Returned("parse_model_cfg.normal")
          /\ rret # 0
          /\ WithinBudgetAvailable(rarg) )
        => Qualifies(rarg.listing[rret])
    /\ ( /\ Returned("find_gltf_in_model_dir")
          /\ rret # 0
          /\ WithinBudgetAvailable(rarg) )
        => Qualifies(rarg.listing[rret])

\* ---------------------------------------------------------------- C22

\* The buffer view of the repaired UV region: the last one appended.
UvView(r) == r.added[Len(r.added)]

\* C22: after a successful transcode the appended buffer views are one per
\* image with a uri followed by one for the UV region; each starts at a
\* multiple of 4 and ends inside the final buffer; the byte range of every
\* repaired UV accessor (byteOffset + count * 8) lies inside the UV buffer
\* view; and buffers[0].byteLength is the length of the BIN chunk written.
C22_AppendedViewsAligned ==
    (TranscodeDone /\ tres.success) =>
        /\ Len(tres.added)
             = Cardinality({ i \in DOMAIN gltf.images : gltf.images[i].uri })
               + 1
        /\ \A k \in DOMAIN tres.added :
              /\ (k = Len(tres.added)) <=> (tres.added[k].image = 0)
              /\ tres.added[k].byteOffset % 4 = 0
              /\ tres.added[k].byteOffset >= 0
              /\ tres.added[k].byteOffset + tres.added[k].byteLength
                    <= tres.buffers_byteLength
        /\ tres.uv_buffer_view_idx
             = Len(gltf.bufferViews) + Len(tres.added)
        /\ \A a \in Float16Uv(gltf) :
              /\ tres.accessors[a].bufferView = tres.uv_buffer_view_idx
              /\ tres.accessors[a].byteOffset >= 0
              /\ tres.accessors[a].byteOffset + tres.accessors[a].count * 8
                    <= UvView(tres).byteLength
        /\ tres.buffers_byteLength = tres.bin_len

\* A geometry buffer of odd length, two images of which the first is one
\* byte long, and a repaired accessor with elements.
C22_Witness ==
    /\ TranscodeDone /\ tres.success
    /\ gltf.binLen % 4 = 1
    /\ Len(gltf.images) = 2
    /\ gltf.images[1].uri /\ gltf.images[1].len = 1
    /\ gltf.images[2].uri /\ gltf.images[2].len = MaxPngLen
    /\ \E a \in Float16Uv(gltf) : gltf.accessors[a].count = MaxCount
    /\ UvView(tres).byteLength = MaxCount * 8

\* ---------------------------------------------------------------- C23

VendorExtensions ==
    { "MSFT_texture_dds", "ASOBO_normal_map_convention", "ASOBO_macro_light",
      "ASOBO_asset_optimized" }

\* out is the list in without the vendor names, removed when that leaves
\* nothing.
ListStripped(in, out) ==
    /\ \A k \in DOMAIN out.items : out.items[k] \notin VendorExtensions
    /\ out.items
         = SelectSeq(in.items, LAMBDA x : x \notin VendorExtensions)
    /\ out.present <=> (in.present /\ out.items # <<>>)

\* The same for an extensions map.
MapStripped(in, out) ==
    /\ out.keys \cap VendorExtensions = {}
    /\ out.keys = in.keys \ VendorExtensions
    /\ out.present <=> (in.present /\ out.keys # {})

\* C23: after a successful transcode none of the four vendor extension
\* names is left in extensionsUsed, extensionsRequired, a material's or a
\* texture's extensions; a list or map the stripping empties is removed;
\* the other entries are kept; a texture whose only image source was the
\* one inside its MSFT_texture_dds payload has it as its top-level source,
\* and a top-level source that was there is not overwritten.
C23_VendorExtensionsStripped ==
    (TranscodeDone /\ tres.success) =>
        /\ ListStripped(gltf.ext.extensionsUsed, tres.ext.extensionsUsed)
        /\ ListStripped(gltf.ext.extensionsRequired,
                        tres.ext.extensionsRequired)
        /\ DOMAIN tres.ext.materials = DOMAIN gltf.ext.materials
        /\ \A i \in DOMAIN gltf.ext.materials :
              MapStripped(gltf.ext.materials[i].extensions,
                          tres.ext.materials[i].extensions)
        /\ DOMAIN tres.ext.textures = DOMAIN gltf.ext.textures
        /\ \A i \in DOMAIN gltf.ext.textures :
              /\ MapStripped(gltf.ext.textures[i].extensions,
                             tres.ext.textures[i].extensions)
              /\ tres.ext.textures[i].source =
                    IF gltf.ext.textures[i].source # 0
                      THEN gltf.ext.textures[i].source
                    ELSE IF "MSFT_texture_dds"
                              \in gltf.ext.textures[i].extensions.keys
                      THEN gltf.ext.textures[i].dds_source
                    ELSE 0

\* A texture with its source only in the payload and another extension
\* beside it, under a list that names both.
C23_Witness ==
    /\ TranscodeDone /\ tres.success
    /\ gltf.ext.extensionsUsed.items
         = << "MSFT_texture_dds", "KHR_texture_transform" >>
    /\ Len(gltf.ext.textures) = 1
    /\ gltf.ext.textures[1].source = 0
    /\ gltf.ext.textures[1].dds_source = 2
    /\ gltf.ext.textures[1].extensions.keys
         = { "MSFT_texture_dds", "KHR_texture_transform" }
    /\ tres.ext.textures[1].source = 2
    /\ tres.ext.textures[1].extensions.keys = { "KHR_texture_transform" }
    /\ tres.ext.extensionsUsed.items = << "KHR_texture_transform" >>

\* ---------------------------------------------------------------- C29

\* C29: when convert_single_gltf fails before the container is put
\* together (scene parse, buffer load, texture decode, UV bounds check) it
\* makes no output directory and writes nothing to the output path.
C29_FailureLeavesOutputAlone ==
    (TranscodeDone /\ tres.raised # "none") =>
        /\ ~tres.mkdir
        /\ tres.written = 0
        /\ ~tres.success

\* A texture that fails to decode after one that decoded.
C29_Witness ==
    /\ TranscodeDone
    /\ Len(gltf.images) = 2
    /\ gltf.images[1].texture = "decoded"
    /\ gltf.images[2].texture = "undecodable"
    /\ tres.raised = "DecodeError"
    /\ ~tres.mkdir

\* ------------------------------------------------------------------- C21

\* The completed writes of the run so far, oldest first.
Flushes == flushLog.gaps

LastFlush == Flushes[Len(Flushes)]

\* C21: with a progress file, the record is on disk from a completed write at
\* the initial site before any task is submitted; a write made by
\* update_progress begins at least PROGRESS_WRITE_INTERVAL after the write
\* before it began; and when main has returned, the last completed write is
\* the one at the final site, made once every task has a result, whatever
\* time had passed, and it left the in-memory record on disk with
\* current = null and a terminal status.
C21_FlushSchedule ==
    flushLog.on =>
      /\ ~NoTaskYet =>
            /\ Flushes # <<>>
            /\ Flushes[1].site = "init_write"
      /\ \A i \in 1..Len(Flushes) :
            Flushes[i].site \in Debounced =>
              Flushes[i].gap >= PROGRESS_WRITE_INTERVAL
      /\ MainReturned =>
            /\ Flushes # <<>>
            /\ LastFlush.site = "final_write"
            /\ AllTasksHaveResult
            /\ lastRec = progress
            /\ file = [st |-> "full", rec |-> progress]
            /\ lastRec.current = 0
            /\ lastRec.status \in Terminal

\* C21 witness: main has returned after an initial write, two writes by
\* update_progress and a final write that came less than the interval after
\* the one before it.
C21_Witness ==
    /\ flushLog.on
    /\ MainReturned
    /\ Len(Flushes) = 4
    /\ Flushes[1].site = "init_write"
    /\ Flushes[2].site \in Debounced
    /\ Flushes[3].site \in Debounced
    /\ LastFlush.site = "final_write"
    /\ LastFlush.gap < PROGRESS_WRITE_INTERVAL

\* ------------------------------------------------------------------- C26

\* A task, once it has a result, keeps that result.
ResultKept ==
    \A t \in DOMAIN kind :
        fut[t] = "done" => fut'[t] = "done" /\ result'[t] = result[t]

\* The state of task t's future; a task the run does not have is never
\* submitted.
FutureOf(t) == IF t \in DOMAIN fut THEN fut[t] ELSE "unsubmitted"

\* Every task handed to the pool comes to hold a result.
TaskYields(t) == (FutureOf(t) # "unsubmitted") ~> (FutureOf(t) = "done")

\* A record with a terminal status is on disk, written completely.
TerminalRecordWritten ==
    /\ lastRec.status \in Terminal
    /\ file = [st |-> "full", rec |-> lastRec]

====
